---- MODULE Spec2Model ----
(***************************************************************************)
(* Model of pint/delegates/base_formatter.py: the format registry, the     *)
(* spec splitter, the dimension sorter, the core formatter and the         *)
(* quantity/unit render entry points.                                      *)
(*                                                                         *)
(* Python strings are TLA+ strings.  An exponent is carried as twice its   *)
(* value (an integer), so that the half-integer exponents a unit may have  *)
(* (0.5, -0.5, 1.5 ...) are values of the model: Exp(n) is the exponent n  *)
(* and Half(n) is the exponent n + 0.5.  A backquote of a message of the   *)
(* code is written as a single quote.                                      *)
(***************************************************************************)
EXTENDS Integers, Sequences, FiniteSets, TLC

VARIABLES
    _FORMATTERS,      \* the module-level dict, as its <<format name, callable>>
                      \* pairs in insertion order
    fmt_locale,       \* the registry's fmt_locale (None or a locale name)
    default_format,   \* the registry's default_format
    separate_format_defaults,  \* the registry's flag of that name: "True", "False" or None
    locale_calls,     \* the arguments of the set_fmt_locale calls made so far
    op,               \* the operation of the last call
    args,             \* the arguments of the last call
    ret,              \* its outcome: [kind |-> "return", value |-> ...] or
                      \*              [kind |-> "raise", error |-> ..., msg |-> ...]
    locals            \* the local variables of the last call when it ended

vars == <<_FORMATTERS, fmt_locale, default_format, separate_format_defaults,
          locale_calls, op, args, ret, locals>>

None == "None"

Return(v) == [kind |-> "return", value |-> v]

Raise(e, m) == [kind |-> "raise", error |-> e, msg |-> m]

\* _FORMATTERS when the module has been imported: the register_unit_format
\* decorators of the formatter classes have run, in the order of the file
BuiltinFormatters ==
    <<<<"P", "format_pretty">>, <<"L", "formatter">>, <<"Lx", "format_latex_siunitx">>,
      <<"H", "format_html">>, <<"D", "format_default">>, <<"C", "format_compact">>>>

\* the callables a caller registers
CustomFormatters == {"format_custom", "format_other"}

----------------------------------------------------------------------------
(* Python str operations *)

Ch(s, i) == SubSeq(s, i, i)

Digits == <<"0", "1", "2", "3", "4", "5", "6", "7", "8", "9">>

IsDigit(c) == \E d \in 1..10 : Digits[d] = c

DigitVal(c) == CHOOSE d \in 0..9 : Digits[d + 1] = c

\* t in s
Contains(s, t) ==
    \E i \in 1..(Len(s) - Len(t) + 1) : SubSeq(s, i, i + Len(t) - 1) = t

StartsWithAt(s, t, i) ==
    /\ i + Len(t) - 1 <= Len(s)
    /\ SubSeq(s, i, i + Len(t) - 1) = t

EndsWith(s, t) ==
    /\ Len(t) <= Len(s)
    /\ SubSeq(s, Len(s) - Len(t) + 1, Len(s)) = t

\* s.replace(old, new) for a non-empty old: every non-overlapping occurrence,
\* leftmost first
RECURSIVE ReplaceFrom(_, _, _, _)
ReplaceFrom(s, old, new, i) ==
    IF i > Len(s) THEN ""
    ELSE IF StartsWithAt(s, old, i)
         THEN new \o ReplaceFrom(s, old, new, i + Len(old))
         ELSE Ch(s, i) \o ReplaceFrom(s, old, new, i + 1)

Replace(s, old, new) == ReplaceFrom(s, old, new, 1)

\* sep.join(seq)
RECURSIVE StrJoin(_, _)
StrJoin(sep, seq) ==
    IF Len(seq) = 0 THEN ""
    ELSE IF Len(seq) = 1 THEN seq[1]
    ELSE seq[1] \o sep \o StrJoin(sep, Tail(seq))

\* str(n) for a natural number n
RECURSIVE IntStr(_)
IntStr(n) ==
    IF n < 10 THEN Digits[n + 1]
    ELSE IntStr(n \div 10) \o Digits[(n % 10) + 1]

\* fmt.format(*fargs) for a template whose replacement fields are "{}"
\* (numbered in order of appearance) or "{d}" with one digit d; k counts the
\* "{}" fields already filled
RECURSIVE FormatFrom(_, _, _, _)
FormatFrom(fmt, fargs, i, k) ==
    IF i > Len(fmt) THEN ""
    ELSE IF StartsWithAt(fmt, "{}", i)
         THEN fargs[k + 1] \o FormatFrom(fmt, fargs, i + 2, k + 1)
    ELSE IF /\ Ch(fmt, i) = "{"
            /\ i + 2 <= Len(fmt)
            /\ IsDigit(Ch(fmt, i + 1))
            /\ Ch(fmt, i + 2) = "}"
         THEN fargs[DigitVal(Ch(fmt, i + 1)) + 1] \o FormatFrom(fmt, fargs, i + 3, k)
    ELSE Ch(fmt, i) \o FormatFrom(fmt, fargs, i + 1, k)

Format(fmt, fargs) == FormatFrom(fmt, fargs, 1, 0)

----------------------------------------------------------------------------
(* Exponents *)

Exp(n) == 2 * n

Half(n) == 2 * n + 1

Abs(x) == IF x < 0 THEN -x ELSE x

\* "{:n}".format(x): 2 -> "2", -2 -> "-2", 0.5 -> "0.5", -1.5 -> "-1.5"
NFormat(x) ==
    LET a == Abs(x)
        body == IF a % 2 = 0 THEN IntStr(a \div 2) ELSE IntStr(a \div 2) \o ".5"
    IN  IF x < 0 THEN "-" \o body ELSE body

\* The table "⁰¹²³⁴⁵⁶⁷⁸⁹".  The module is written in Latin-1 characters, so
\* the superscripts that Latin-1 lacks are written with stand-ins: º for ⁰,
\* ^4 .. ^9 for ⁴ .. ⁹, and below ¯ for the superscript minus (U+207B) and
\* ° for the dot operator (U+22C5).  No other string of the model holds them.
_PRETTY_EXPONENTS == <<"º", "¹", "²", "³", "^4", "^5", "^6", "^7", "^8", "^9">>

RECURSIVE PrettyDigits(_, _)
PrettyDigits(s, n) ==
    IF n = 10 THEN s
    ELSE PrettyDigits(Replace(s, Digits[n + 1], _PRETTY_EXPONENTS[n + 1]), n + 1)

_pretty_fmt_exponent(num) ==
    PrettyDigits(Replace(Replace(NFormat(num), "-", "¯"), ".", "°"), 0)

\* The exp_call argument is one of these two callables
ExpCalls == {"n_format", "_pretty_fmt_exponent"}

CallExp(exp_call, x) ==
    IF exp_call = "_pretty_fmt_exponent" THEN _pretty_fmt_exponent(x) ELSE NFormat(x)

----------------------------------------------------------------------------
(* Formatter._join *)

\* self.__JOIN_REG_EXP.search(fmt), the pattern being {\d*}
JOIN_REG_EXP_search(fmt) ==
    \E i \in 1..Len(fmt) : \E j \in (i + 1)..Len(fmt) :
        /\ Ch(fmt, i) = "{"
        /\ Ch(fmt, j) = "}"
        /\ \A m \in (i + 1)..(j - 1) : IsDigit(Ch(fmt, m))

\* the loop of _join: first = fmt.format(first, val) for each later val
RECURSIVE JoinFold(_, _, _)
JoinFold(fmt, first, rest) ==
    IF Len(rest) = 0 THEN first
    ELSE JoinFold(fmt, Format(fmt, <<first, Head(rest)>>), Tail(rest))

\* _join folding from the right: fmt.format(s0, fmt.format(s1, s2))
RECURSIVE JoinFoldRight(_, _)
JoinFoldRight(fmt, seq) ==
    IF Len(seq) = 1 THEN seq[1]
    ELSE Format(fmt, <<Head(seq), JoinFoldRight(fmt, Tail(seq))>>)

_join_right(fmt, iterable) ==
    IF Len(iterable) = 0 THEN ""
    ELSE IF ~JOIN_REG_EXP_search(fmt) THEN StrJoin(fmt, iterable)
    ELSE JoinFoldRight(fmt, iterable)

_join(fmt, iterable) ==
    IF Len(iterable) = 0 THEN ""
    ELSE IF ~JOIN_REG_EXP_search(fmt) THEN StrJoin(fmt, iterable)
    ELSE JoinFold(fmt, Head(iterable), Tail(iterable))

----------------------------------------------------------------------------
(* The unit registry, as far as the formatter reads it.  A registry is None  *)
(* or this table: get_name resolves a unit name or alias to its canonical    *)
(* name ("" for "dimensionless"), get_dimensionality gives the dimension     *)
(* tokens of a canonical name.                                               *)

ureg == "ureg"

UregNames == {"meter", "metre", "second", "gram", "knot", "radian", "kelvin", "dimensionless"}

get_name(unit_name) ==
    CASE unit_name = "metre" -> "meter"
      [] unit_name = "dimensionless" -> ""
      [] OTHER -> unit_name

get_dimensionality(cname) ==
    CASE cname = "meter" -> {"[length]"}
      [] cname = "second" -> {"[time]"}
      [] cname = "gram" -> {"[mass]"}
      [] cname = "knot" -> {"[length]", "[time]"}
      [] cname = "kelvin" -> {"[temperature]"}
      [] OTHER -> {}

----------------------------------------------------------------------------
(* Formatter.dim_sort *)

\* the default of Formatter.__init__'s dim_order
DefaultDimOrder ==
    <<"[substance]", "[mass]", "[current]", "[luminosity]", "[length]", "[]",
      "[time]", "[temperature]">>

\* the walk over dim_order: the first token that is in cname_dims, or None
\* when the iterator is exhausted (StopIteration)
RECURSIVE FirstDim(_, _, _)
FirstDim(dim_order, cname_dims, k) ==
    IF k > Len(dim_order) THEN None
    ELSE IF dim_order[k] \in cname_dims THEN dim_order[k]
    ELSE FirstDim(dim_order, cname_dims, k + 1)

\* ret_dict[dim].append((unit_name, unit_exponent)), creating the list first
AppendTo(ret_dict, dim, item) ==
    IF dim \in DOMAIN ret_dict
    THEN [ret_dict EXCEPT ![dim] = Append(@, item)]
    ELSE [d \in DOMAIN ret_dict \cup {dim} |->
            IF d = dim THEN <<item>> ELSE ret_dict[d]]

\* the for loop over items: the filled ret_dict, or the KeyError raised
RECURSIVE DimSortLoop(_, _, _, _)
DimSortLoop(dim_order, items, i, ret_dict) ==
    IF i > Len(items) THEN Return(ret_dict)
    ELSE LET unit_name == items[i][1]
             cname == get_name(unit_name)
             dims == get_dimensionality(cname)
             cname_dims == IF Cardinality(dims) = 0 THEN {"[]"} ELSE dims
             dim == FirstDim(dim_order, cname_dims, 1)
         IN  IF cname = "" THEN DimSortLoop(dim_order, items, i + 1, ret_dict)
             ELSE IF dim = None
                  THEN Raise("KeyError", "Unit " \o unit_name \o " (aka " \o cname
                                         \o ") has no recognized dimensions")
             ELSE DimSortLoop(dim_order, items, i + 1, AppendTo(ret_dict, dim, items[i]))

\* sum([ret_dict[dim] for dim in self.dim_order if dim in ret_dict], [])
RECURSIVE SumBuckets(_, _, _)
SumBuckets(dim_order, ret_dict, k) ==
    IF k > Len(dim_order) THEN << >>
    ELSE (IF dim_order[k] \in DOMAIN ret_dict THEN ret_dict[dim_order[k]] ELSE << >>)
         \o SumBuckets(dim_order, ret_dict, k + 1)

dim_sort(dim_order, items, registry) ==
    IF registry = None \/ Len(items) <= 1 THEN Return(items)
    ELSE LET filled == DimSortLoop(dim_order, items, 1, << >>)
         IN  IF filled.kind = "raise" THEN filled
             ELSE Return(SumBuckets(dim_order, filled.value, 1))

----------------------------------------------------------------------------
(* sorted(items): tuples compare by unit name, then by exponent *)

CodeOrder == "0123456789ABCDEFGHIJKLMNOPQRSTUVWXYZ[\\]^_abcdefghijklmnopqrstuvwxyz{}"

\* ord(c), as far as comparing goes: the place of c in CodeOrder
RankOf ==
    [c \in {Ch(CodeOrder, r) : r \in 1..Len(CodeOrder)} |->
        CHOOSE r \in 1..Len(CodeOrder) : Ch(CodeOrder, r) = c]

Rank(c) == RankOf[c]

RECURSIVE StrLess(_, _)
StrLess(a, b) ==
    IF Len(b) = 0 THEN FALSE
    ELSE IF Len(a) = 0 THEN TRUE
    ELSE IF Head(a) = Head(b) THEN StrLess(Tail(a), Tail(b))
    ELSE Rank(Head(a)) < Rank(Head(b))

ItemLess(x, y) == StrLess(x[1], y[1]) \/ (x[1] = y[1] /\ x[2] < y[2])

RECURSIVE InsertSorted(_, _)
InsertSorted(x, seq) ==
    IF Len(seq) = 0 THEN <<x>>
    ELSE IF ItemLess(x, Head(seq)) THEN <<x>> \o seq
    ELSE <<Head(seq)>> \o InsertSorted(x, Tail(seq))

\* sorted() leaving the list as it is
sorted_none(items) == items

RECURSIVE sorted(_)
sorted(items) ==
    IF Len(items) = 0 THEN << >>
    ELSE InsertSorted(items[Len(items)], sorted(SubSeq(items, 1, Len(items) - 1)))

----------------------------------------------------------------------------
(* The babel names and locale data the formatter reads *)

\* pint.babel_names._babel_units: the localizable units
_babel_units ==
    [u \in {"meter", "second", "gram"} |->
        CASE u = "meter" -> "length-meter"
          [] u = "second" -> "duration-second"
          [] u = "gram" -> "mass-gram"]

\* pint.babel_names._babel_lengths
_babel_lengths == <<"narrow", "short", "long">>

\* locale._data["unit_patterns"].get(_key, {}).get(length, {}).get(plural):
\* the pattern, or None.  In "fr_FR" every length has the plural forms "one"
\* and "other"; "xx" is a locale whose data has no long patterns at all.
unit_patterns_get(locale, _key, length, plural) ==
    LET stem == CASE _key = "length-meter" -> <<"mètre", "m">>
                  [] _key = "duration-second" -> <<"seconde", "s">>
                  [] _key = "mass-gram" -> <<"gramme", "g">>
                  [] OTHER -> << >>
    IN  IF Len(stem) = 0 \/ plural \notin {"one", "other"} THEN None
        ELSE IF length = "long" /\ locale = "fr_FR"
             THEN "{0} " \o stem[1] \o (IF plural = "other" THEN "s" ELSE "")
        ELSE IF length = "short" THEN "{0} " \o stem[2]
        ELSE IF length = "narrow" THEN "{0}" \o stem[2]
        ELSE None

\* locale._data["compound_unit_patterns"].get("per", {}).get(babel_length):
\* a dict with the key "compound", or None when the length has no entry
compound_per_get(locale, length) ==
    IF length = "long" /\ locale = "fr_FR" THEN "{0} par {1}"
    ELSE IF length \in {"short", "narrow"} THEN "{0}/{1}"
    ELSE None

\* str.strip() of the blanks at both ends
RECURSIVE Strip(_)
Strip(s) ==
    IF Len(s) > 0 /\ Head(s) = " " THEN Strip(Tail(s))
    ELSE IF Len(s) > 0 /\ Ch(s, Len(s)) = " " THEN Strip(SubSeq(s, 1, Len(s) - 1))
    ELSE s

----------------------------------------------------------------------------
(* Formatter.formatter *)

\* [babel_length] + other_lengths
BabelLengthsToTry(babel_length) ==
    IF \A k \in 1..Len(_babel_lengths) : _babel_lengths[k] # babel_length
    THEN <<babel_length>> \o
         [k \in 1..Len(_babel_lengths) |-> _babel_lengths[Len(_babel_lengths) + 1 - k]]
    ELSE <<babel_length>>

\* the for loop over the lengths: the first pattern found replaces the key
RECURSIVE LocalizedKey(_, _, _, _, _)
LocalizedKey(key, locale, lengths, plural, k) ==
    IF k > Len(lengths) THEN key
    ELSE LET pat == unit_patterns_get(locale, _babel_units[key], lengths[k], plural)
         IN  IF pat # None THEN Strip(Replace(pat, "{0}", ""))
             ELSE LocalizedKey(key, locale, lengths, plural, k + 1)

\* whether the locale branch of the loop body is taken for this key
Localizable(o, key) ==
    /\ o.locale # None
    /\ o.babel_length # ""
    /\ o.babel_plural_form # ""
    /\ key \in DOMAIN _babel_units

\* the locale branch of the loop body, for a localizable key: the key and
\* the locals division_fmt, power_fmt and exp_call it assigns
Localize(o, st, item) ==
    LET plural == IF Abs(item[2]) <= 0 THEN "one" ELSE o.babel_plural_form
        per == compound_per_get(o.locale, o.babel_length)
    IN  [key |-> LocalizedKey(item[1], o.locale, BabelLengthsToTry(o.babel_length),
                              plural, 1),
         st |-> [st EXCEPT !.division_fmt = IF per # None THEN per ELSE @,
                           !.power_fmt = "{}{}",
                           !.exp_call = "_pretty_fmt_exponent"]]

\* fun applied with unsigned exponents in both modes
fun_abs(o, exp_call, x) == CallExp(exp_call, Abs(x))

\* fun(x): lambda x: exp_call(abs(x)), which reads the local exp_call when it
\* is called, or the exp_call that was passed in
fun(o, exp_call, x) ==
    IF o.as_ratio THEN CallExp(exp_call, Abs(x)) ELSE CallExp(o.exp_call, x)

\* the classification with "value > 1" for the second branch
AppendTerm_gt1(o, st, key, value) ==
    LET powered == Format(st.power_fmt, <<key, fun(o, st.exp_call, value)>>)
    IN  IF value = Exp(1) THEN [st EXCEPT !.pos_terms = Append(@, key)]
        ELSE IF value > Exp(1) THEN [st EXCEPT !.pos_terms = Append(@, powered)]
        ELSE IF value = Exp(-1) /\ o.as_ratio
             THEN [st EXCEPT !.neg_terms = Append(@, key)]
        ELSE [st EXCEPT !.neg_terms = Append(@, powered)]

\* the if/elif chain that appends the term to pos_terms or neg_terms
AppendTerm(o, st, key, value) ==
    LET powered == Format(st.power_fmt, <<key, fun(o, st.exp_call, value)>>)
    IN  IF value = Exp(1) THEN [st EXCEPT !.pos_terms = Append(@, key)]
        ELSE IF value > 0 THEN [st EXCEPT !.pos_terms = Append(@, powered)]
        ELSE IF value = Exp(-1) /\ o.as_ratio
             THEN [st EXCEPT !.neg_terms = Append(@, key)]
        ELSE [st EXCEPT !.neg_terms = Append(@, powered)]

\* one pass of the loop body; st holds the locals the loop assigns
LoopBody(o, st, item) ==
    IF Localizable(o, item[1])
    THEN LET l == Localize(o, st, item)
         IN  AppendTerm(o, l.st, l.key, item[2])
    ELSE AppendTerm(o, st, item[1], item[2])

RECURSIVE Loop(_, _, _, _)
Loop(o, st, items, i) ==
    IF i > Len(items) THEN st
    ELSE Loop(o, LoopBody(o, st, items[i]), items, i + 1)

\* the locals when the loop is entered
LoopStart(o) ==
    [pos_terms |-> << >>, neg_terms |-> << >>, division_fmt |-> o.division_fmt,
     power_fmt |-> o.power_fmt, exp_call |-> o.exp_call]

\* the locals after the loop over the (sorted) items
LoopResult(o, items) == Loop(o, LoopStart(o), items, 1)

\* the statements after the loop, the denominator always in parentheses
Assemble_parens(o, st) ==
    IF ~o.as_ratio THEN _join(o.product_fmt, st.pos_terms \o st.neg_terms)
    ELSE LET joined == _join(o.product_fmt, st.pos_terms)
             pos_ret == IF joined = "" THEN "1" ELSE joined
             neg_ret ==
                 IF o.single_denominator
                 THEN Format(o.parentheses_fmt, <<_join(o.product_fmt, st.neg_terms)>>)
                 ELSE _join(st.division_fmt, st.neg_terms)
         IN  IF Len(st.neg_terms) = 0 THEN pos_ret
             ELSE _join(st.division_fmt, <<pos_ret, neg_ret>>)

\* the statements after the loop
Assemble(o, st) ==
    IF ~o.as_ratio THEN _join(o.product_fmt, st.pos_terms \o st.neg_terms)
    ELSE LET joined == _join(o.product_fmt, st.pos_terms)
             pos_ret == IF joined = "" THEN "1" ELSE joined
             neg_ret ==
                 IF o.single_denominator
                 THEN LET n == _join(o.product_fmt, st.neg_terms)
                      IN  IF Len(st.neg_terms) > 1
                          THEN Format(o.parentheses_fmt, <<n>>) ELSE n
                 ELSE _join(st.division_fmt, st.neg_terms)
         IN  IF Len(st.neg_terms) = 0 THEN pos_ret
             ELSE _join(st.division_fmt, <<pos_ret, neg_ret>>)

\* items after "if sort" and "if sort_dims": a list, or dim_sort's KeyError
SortedItems(dim_order, items, o) ==
    LET s1 == IF o.sort THEN sorted(items) ELSE items
    IN  IF o.sort_dims THEN dim_sort(dim_order, s1, o.registry) ELSE Return(s1)

\* a call of formatter: its outcome and its locals at that point
formatter_run(dim_order, items, o) ==
    IF Len(items) = 0 THEN [ret |-> Return(""), locals |-> << >>]
    ELSE LET si == SortedItems(dim_order, items, o)
         IN  IF si.kind = "raise" THEN [ret |-> si, locals |-> LoopStart(o)]
             ELSE LET st == LoopResult(o, si.value)
                  IN  [ret |-> Return(Assemble(o, st)), locals |-> st]

formatter(dim_order, items, o) == formatter_run(dim_order, items, o).ret

\* the defaults of formatter's keyword arguments
FormatterDefaults ==
    [as_ratio |-> TRUE, single_denominator |-> FALSE, product_fmt |-> " * ",
     division_fmt |-> " / ", power_fmt |-> "{} ** {}", parentheses_fmt |-> "({0})",
     exp_call |-> "n_format", locale |-> None, babel_length |-> "long",
     babel_plural_form |-> "one", sort |-> TRUE, sort_dims |-> TRUE,
     registry |-> None]

----------------------------------------------------------------------------
(* Calls of _join: the arguments are drawn at the start, the call is applied *)

MaxSeq == 3

JoinTokens == {"a", "b", "c**2"}

JoinTemplates == {" * ", " / ", "·", "{}/{}", "\\frac[{}][{}]", "{0} par {1}", "({0})"}

SeqsUpTo(S, n) == UNION {[1..m -> S] : m \in 0..n}

Pending == [kind |-> "pending"]

InitJoin ==
    /\ _FORMATTERS = BuiltinFormatters
    /\ fmt_locale = None
    /\ default_format = ""
    /\ separate_format_defaults = None
    /\ locale_calls = << >>
    /\ op = "start"
    /\ args \in [fmt : JoinTemplates, iterable : SeqsUpTo(JoinTokens, MaxSeq)]
    /\ ret = Pending
    /\ locals = << >>

Call_join ==
    /\ op = "start"
    /\ op' = "_join"
    /\ ret' = Return(_join(args.fmt, args.iterable))
    /\ UNCHANGED <<_FORMATTERS, fmt_locale, default_format, separate_format_defaults,
                   locale_calls, args, locals>>

NextJoin == Call_join

SpecJoin == InitJoin /\ [][NextJoin]_vars

\* The nesting template(template(template(s0, s1), s2), ...), built from the
\* last element inwards
RECURSIVE NestedLeft(_, _)
NestedLeft(fmt, seq) ==
    IF Len(seq) = 1 THEN seq[1]
    ELSE Format(fmt, <<NestedLeft(fmt, SubSeq(seq, 1, Len(seq) - 1)), seq[Len(seq)]>>)

\* C9: _join(template, seq) is "" for an empty seq and x for a one-element
\* seq [x], whatever the template; for a template without placeholders it is
\* the separator-join of seq, and for a template with placeholders it is the
\* left fold template(template(template(s0, s1), s2), ...).
C9_JoinShape ==
    op = "_join" =>
        LET fmt == args.fmt
            seq == args.iterable
        IN  /\ ret.kind = "return"
            /\ Len(seq) = 0 => ret.value = ""
            /\ Len(seq) = 1 => ret.value = seq[1]
            /\ (Len(seq) >= 1 /\ ~JOIN_REG_EXP_search(fmt)) => ret.value = StrJoin(fmt, seq)
            /\ (Len(seq) >= 1 /\ JOIN_REG_EXP_search(fmt)) => ret.value = NestedLeft(fmt, seq)

\* a fold of three elements through a two-field template has happened
C9_Witness ==
    /\ op = "_join"
    /\ args.fmt = "\\frac[{}][{}]"
    /\ args.iterable = <<"a", "b", "c**2">>
    /\ ret = Return("\\frac[\\frac[a][b]][c**2]")

----------------------------------------------------------------------------
(* Calls of Formatter.formatter *)

\* _FORMATS: the argument sets of the built-in formats
_FORMATS ==
    [P |-> [as_ratio |-> TRUE, single_denominator |-> FALSE, product_fmt |-> "·",
            division_fmt |-> "/", power_fmt |-> "{}{}", parentheses_fmt |-> "({})",
            exp_call |-> "_pretty_fmt_exponent"],
     L |-> [as_ratio |-> TRUE, single_denominator |-> TRUE, product_fmt |-> " \\cdot ",
            division_fmt |-> "\\frac[{}][{}]", power_fmt |-> "{}^[{}]",
            parentheses_fmt |-> "\\left({}\\right)", exp_call |-> "n_format"],
     H |-> [as_ratio |-> TRUE, single_denominator |-> TRUE, product_fmt |-> " ",
            division_fmt |-> "{}/{}", power_fmt |-> "{}<sup>{}</sup>",
            parentheses_fmt |-> "({})", exp_call |-> "n_format"],
     D |-> [as_ratio |-> TRUE, single_denominator |-> FALSE, product_fmt |-> " * ",
            division_fmt |-> " / ", power_fmt |-> "{} ** {}", parentheses_fmt |-> "({})",
            exp_call |-> "n_format"],
     C |-> [as_ratio |-> TRUE, single_denominator |-> FALSE, product_fmt |-> "*",
            division_fmt |-> "/", power_fmt |-> "{}**{}", parentheses_fmt |-> "({})",
            exp_call |-> "n_format"]]

\* the defaults with the templates and exp_call of a built-in format
WithTemplates(f) ==
    IF f = "" THEN FormatterDefaults ELSE
    [FormatterDefaults EXCEPT !.product_fmt = _FORMATS[f].product_fmt,
                              !.division_fmt = _FORMATS[f].division_fmt,
                              !.power_fmt = _FORMATS[f].power_fmt,
                              !.parentheses_fmt = _FORMATS[f].parentheses_fmt,
                              !.exp_call = _FORMATS[f].exp_call]

----------------------------------------------------------------------------
(* Formatter.siunitx_format_unit *)

\* str(p.name) for p in registry._prefixes.values(), in the dict's order
PrefixNames == <<"", "milli", "kilo", "mega">>

\* s.rstrip("0")
RECURSIVE RStripZeros(_)
RStripZeros(s) ==
    IF Len(s) > 0 /\ Ch(s, Len(s)) = "0" THEN RStripZeros(SubSeq(s, 1, Len(s) - 1))
    ELSE s

\* f"{power:.3f}" for a power that is a multiple of 0.5, power >= 0
Fixed3(power) ==
    IntStr(power \div 2) \o (IF power % 2 = 0 THEN ".000" ELSE ".500")

_tothe(power) ==
    IF power % 2 = 0
    THEN IF power = Exp(1) THEN ""
         ELSE IF power = Exp(2) THEN "\\squared"
         ELSE IF power = Exp(3) THEN "\\cubed"
         ELSE "\\tothe{" \o IntStr(power \div 2) \o "}"
    ELSE RStripZeros("\\tothe{" \o Fixed3(power) \o "}")

\* the loop over the prefixes: [prefix, unit] after it
RECURSIVE StripPrefixes(_, _, _)
StripPrefixes(prefix, unit, k) ==
    IF k > Len(PrefixNames) THEN [prefix |-> prefix, unit |-> unit]
    ELSE LET pn == PrefixNames[k]
         IN  IF Len(pn) > 0 /\ StartsWithAt(unit, pn, 1)
             THEN StripPrefixes(pn, SubSeq(unit, Len(pn) + 1, Len(unit)), k + 1)
             ELSE StripPrefixes(prefix, unit, k + 1)

\* what one unit appends to lpick
SiunitxTerm(item) ==
    LET sp == StripPrefixes(None, item[1], 1)
    IN  (IF item[2] < 0 THEN "\\per" ELSE "")
        \o (IF sp.prefix # None THEN "\\" \o sp.prefix ELSE "")
        \o "\\" \o sp.unit
        \o _tothe(Abs(item[2]))

RECURSIVE ConcatAll(_)
ConcatAll(seq) == IF Len(seq) = 0 THEN "" ELSE Head(seq) \o ConcatAll(Tail(seq))

siunitx_format_unit(units, registry) ==
    LET su == sorted(units)
        lpos == SelectSeq(su, LAMBDA it : it[2] >= 0)
        lneg == SelectSeq(su, LAMBDA it : it[2] < 0)
    IN  ConcatAll([k \in 1..Len(lpos) |-> SiunitxTerm(lpos[k])])
        \o ConcatAll([k \in 1..Len(lneg) |-> SiunitxTerm(lneg[k])])

----------------------------------------------------------------------------
(* The registered formats: PrettyFormatter.format_pretty, LatexFormatter's   *)
(* formatter and format_latex_siunitx, HtmlFormatter.format_html,            *)
(* DefaultFormatter.format_default, CompactFormatter.format_compact.  Each   *)
(* is given the dim_order of the Formatter it is called on.                  *)

\* the keyword arguments a format passes to Formatter.formatter: those of
\* the format, registry=registry and **options (options is a record of
\* keyword arguments such as locale and babel_plural_form)
PresetOptions(f, registry, options) ==
    LET own == [[[WithTemplates(f) EXCEPT !.registry = registry]
                    EXCEPT !.as_ratio = _FORMATS[f].as_ratio]
                    EXCEPT !.single_denominator = _FORMATS[f].single_denominator]
    IN  [k \in DOMAIN own |-> IF k \in DOMAIN options THEN options[k] ELSE own[k]]

format_pretty(dim_order, unit, registry, options) ==
    formatter(dim_order, unit, PresetOptions("P", registry, options))

format_html(dim_order, unit, registry, options) ==
    formatter(dim_order, unit, PresetOptions("H", registry, options))

format_default(dim_order, unit, registry, options) ==
    formatter(dim_order, unit, PresetOptions("D", registry, options))

format_compact(dim_order, unit, registry, options) ==
    formatter(dim_order, unit, PresetOptions("C", registry, options))

\* re.sub("([&%$#_{}])", r"\\\1", s)
RECURSIVE EscapeSpecials(_)
EscapeSpecials(str) ==
    IF Len(str) = 0 THEN ""
    ELSE (IF Head(str) \in {"&", "%", "$", "#", "_", "{", "}"} THEN "\\" ELSE "")
         \o Head(str) \o EscapeSpecials(Tail(str))

latex_escape(string) ==
    EscapeSpecials(
        Replace(Replace(Replace(string, "\\", "\\textbackslash "),
                        "~", "\\textasciitilde "),
                "^", "\\textasciicircum "))

\* LatexFormatter.formatter
format_latex(dim_order, unit, registry, options) ==
    LET sorted_units == dim_sort(dim_order, unit, registry)
    IN  IF sorted_units.kind = "raise" THEN sorted_units
        ELSE LET preprocessed ==
                     [k \in 1..Len(sorted_units.value) |->
                         <<"\\mathrm{" \o latex_escape(sorted_units.value[k][1]) \o "}",
                           sorted_units.value[k][2]>>]
                 formatted ==
                     formatter(dim_order, preprocessed,
                               [PresetOptions("L", registry, options) EXCEPT
                                    !.sort = FALSE, !.sort_dims = FALSE])
             IN  Return(Replace(Replace(formatted.value, "[", "{"), "]", "}"))

format_latex_siunitx(dim_order, unit, registry, options) ==
    IF registry = None
    THEN Raise("ValueError",
               "Can't format as siunitx without a registry."
               \o " This is usually triggered when formatting a instance"
               \o " of the internal 'UnitsContainer' with a spec of '\"Lx\"'"
               \o " and might indicate a bug in 'pint'.")
    ELSE Return("\\si[]{" \o siunitx_format_unit(unit, registry) \o "}")

\* fmt(self, unit, registry=registry, **options) for a registered callable
CallFormat(fmt, dim_order, unit, registry, options) ==
    CASE fmt = "format_pretty" -> format_pretty(dim_order, unit, registry, options)
      [] fmt = "formatter" -> format_latex(dim_order, unit, registry, options)
      [] fmt = "format_latex_siunitx" -> format_latex_siunitx(dim_order, unit, registry, options)
      [] fmt = "format_html" -> format_html(dim_order, unit, registry, options)
      [] fmt = "format_default" -> format_default(dim_order, unit, registry, options)
      [] fmt = "format_compact" -> format_compact(dim_order, unit, registry, options)
      [] fmt = "format_custom" -> Return("<formatted unit>")
      [] OTHER -> Return("<" \o fmt \o ">")

MaxExp == 2

\* the integers -MaxExp .. MaxExp and 0.5
ExpSet == {Exp(n) : n \in (-MaxExp)..MaxExp} \cup {Half(0)}

UnitPool == {"meter", "second", "gram"}

\* the lists of (unit, exponent) pairs in which no unit appears twice
ItemSeqs ==
    {s \in SeqsUpTo(UnitPool \X ExpSet, Cardinality(UnitPool)) :
        \A i, j \in 1..Len(s) : i # j => s[i][1] # s[j][1]}

FormatterOptions ==
    {[[[WithTemplates(f) EXCEPT !.as_ratio = r] EXCEPT !.single_denominator = d]
        EXCEPT !.sort = srt] :
        f \in {"", "P", "H"}, r \in BOOLEAN, d \in BOOLEAN, srt \in BOOLEAN}

InitFormatter ==
    /\ _FORMATTERS = BuiltinFormatters
    /\ fmt_locale = None
    /\ default_format = ""
    /\ separate_format_defaults = None
    /\ locale_calls = << >>
    /\ op = "start"
    /\ args \in [dim_order : {DefaultDimOrder}, items : ItemSeqs, o : FormatterOptions]
    /\ ret = Pending
    /\ locals = << >>

Call_formatter ==
    /\ op = "start"
    /\ op' = "formatter"
    /\ \E run \in {formatter_run(args.dim_order, args.items, args.o)} :
           ret' = run.ret /\ locals' = run.locals
    /\ UNCHANGED <<_FORMATTERS, fmt_locale, default_format, separate_format_defaults,
                   locale_calls, args>>

NextFormatter == Call_formatter

SpecFormatter == InitFormatter /\ [][NextFormatter]_vars

----------------------------------------------------------------------------
(* The claims about Formatter.formatter *)

\* one application of a template to two strings: a separator goes between
\* them, a template with placeholders takes them as its two arguments
Combine(t, a, b) ==
    IF JOIN_REG_EXP_search(t) THEN Format(t, <<a, b>>) ELSE a \o t \o b

\* the strings of seq combined from the left, one application per element
RECURSIVE CombineAll(_, _)
CombineAll(t, seq) ==
    IF Len(seq) = 0 THEN ""
    ELSE IF Len(seq) = 1 THEN seq[1]
    ELSE Combine(t, CombineAll(t, SubSeq(seq, 1, Len(seq) - 1)), seq[Len(seq)])

\* a call of formatter with items and no locale has returned
FormatterReturned ==
    /\ op = "formatter"
    /\ Len(args.items) > 0
    /\ args.o.locale = None
    /\ ret.kind = "return"

C5_Items == <<<<"meter", Exp(1)>>, <<"second", Exp(-1)>>, <<"gram", Exp(-1)>>>>

C5_Call(o) == op = "formatter" /\ args.items = C5_Items /\ args.o = o

\* C5 as stated: the items [("meter",1),("second",-1),("gram",-1)] with
\* single_denominator=true and every other option at its default give
\* "meter / (second * gram)".
C5_Original ==
    C5_Call([FormatterDefaults EXCEPT !.single_denominator = TRUE])
        => ret = Return("meter / (second * gram)")

\* C5 amended: these items with single_denominator=true and the other options
\* at their defaults, sort=true among them, are sorted by name first and give
\* "meter / (gram * second)"; with sort=false they give "meter / (second * gram)".
C5_SingleDenominatorExample ==
    /\ C5_Call([FormatterDefaults EXCEPT !.single_denominator = TRUE])
           => ret = Return("meter / (gram * second)")
    /\ C5_Call([FormatterDefaults EXCEPT !.single_denominator = TRUE, !.sort = FALSE])
           => ret = Return("meter / (second * gram)")

C5_Witness ==
    /\ C5_Call([FormatterDefaults EXCEPT !.single_denominator = TRUE, !.sort = FALSE])
    /\ ret = Return("meter / (second * gram)")
    /\ locals.neg_terms = <<"second", "gram">>

\* C6: in ratio mode with non-empty items the numerator is the product_fmt
\* join of the positive terms, or "1" when there are none; without negative
\* terms the result is the numerator; with single_denominator the negative
\* terms are joined by product_fmt into one group, in parentheses_fmt exactly
\* when there are several, and divided into the numerator by one division_fmt;
\* otherwise the negative terms are folded from the left with division_fmt and
\* divided into the numerator by one more division_fmt.
C6_RatioAssembly ==
    (FormatterReturned /\ args.o.as_ratio) =>
        LET o == args.o
            pos == locals.pos_terms
            neg == locals.neg_terms
            num == IF Len(pos) = 0 THEN "1" ELSE CombineAll(o.product_fmt, pos)
            group == CombineAll(o.product_fmt, neg)
            den == IF o.single_denominator
                   THEN IF Len(neg) > 1 THEN Format(o.parentheses_fmt, <<group>>)
                        ELSE group
                   ELSE CombineAll(o.division_fmt, neg)
        IN  /\ ret.value = IF Len(neg) = 0 THEN num ELSE Combine(o.division_fmt, num, den)
            /\ (args.items = <<<<"meter", Exp(1)>>, <<"second", Exp(-2)>>>>
                    /\ o = FormatterDefaults)
                   => ret.value = "meter / second ** 2"

\* two negative terms were folded through a two-field division template
C6_Witness ==
    /\ FormatterReturned
    /\ args.o = [[WithTemplates("H") EXCEPT !.as_ratio = TRUE]
                    EXCEPT !.single_denominator = FALSE]
    /\ args.items = <<<<"second", Exp(-2)>>, <<"meter", Exp(1)>>, <<"gram", Exp(-1)>>>>
    /\ ret.value = "meter/gram/second<sup>2</sup>"

\* C7: with as_ratio=false and non-empty items the result is the product_fmt
\* join of the positive terms followed by the negative terms; the division
\* template does not occur in it (a separator is not a substring of it, a
\* template with placeholders is not applied: the result is the same for
\* another division template); every item with a negative exponent is
\* rendered by power_fmt with its signed exponent.
C7_ProductOnly ==
    (FormatterReturned /\ ~args.o.as_ratio) =>
        LET o == args.o
            terms == locals.pos_terms \o locals.neg_terms
        IN  /\ ret.value = CombineAll(o.product_fmt, terms)
            /\ Len(terms) = Len(args.items)
            /\ ~JOIN_REG_EXP_search(o.division_fmt) => ~Contains(ret.value, o.division_fmt)
            /\ JOIN_REG_EXP_search(o.division_fmt) =>
                   ret = formatter(args.dim_order, args.items,
                                   [o EXCEPT !.division_fmt = "{} per {}"])
            /\ \A i \in 1..Len(args.items) :
                   args.items[i][2] < 0 =>
                       \E k \in 1..Len(locals.neg_terms) :
                           locals.neg_terms[k] =
                               Format(o.power_fmt,
                                      <<args.items[i][1],
                                        CallExp(o.exp_call, args.items[i][2])>>)

C7_Witness ==
    /\ FormatterReturned
    /\ args.o = [FormatterDefaults EXCEPT !.as_ratio = FALSE]
    /\ args.items = <<<<"second", Exp(-1)>>, <<"meter", Exp(2)>>>>
    /\ ret.value = "meter ** 2 * second ** -1"

\* the term of an item: the bare unit for the exponent 1, and for -1 in ratio
\* mode; otherwise power_fmt of the unit and the rendered exponent, which is
\* the absolute value in ratio mode
TermOf(o, item) ==
    IF item[2] = Exp(1) \/ (item[2] = Exp(-1) /\ o.as_ratio) THEN item[1]
    ELSE Format(o.power_fmt,
                <<item[1], CallExp(o.exp_call, IF o.as_ratio THEN Abs(item[2]) ELSE item[2])>>)

TermsOf(o, seq) == [k \in 1..Len(seq) |-> TermOf(o, seq[k])]

\* the items in the order the loop takes them
LoopItems == SortedItems(args.dim_order, args.items, args.o).value

\* C8 as stated: exponent 1 and exponents above 1 go to the positive list,
\* every other exponent (0 and the fractions between 0 and 1 among them) to
\* the negative list.
C8_Original ==
    FormatterReturned =>
        /\ locals.pos_terms =
               TermsOf(args.o, SelectSeq(LoopItems, LAMBDA it : it[2] >= Exp(1)))
        /\ locals.neg_terms =
               TermsOf(args.o, SelectSeq(LoopItems, LAMBDA it : it[2] < Exp(1)))

\* C8 amended: every exponent above 0 goes to the positive list (the bare
\* unit for 1, power_fmt for the others, the fractions between 0 and 1 among
\* them); 0 and the negative exponents go to the negative list (the bare unit
\* for -1 in ratio mode, power_fmt with |exponent| in ratio mode and the
\* signed exponent otherwise).
C8_Classification ==
    FormatterReturned =>
        /\ locals.pos_terms =
               TermsOf(args.o, SelectSeq(LoopItems, LAMBDA it : it[2] > 0))
        /\ locals.neg_terms =
               TermsOf(args.o, SelectSeq(LoopItems, LAMBDA it : it[2] <= 0))

\* a fractional exponent below 1 was put in the positive list and 0 in the
\* negative list
C8_Witness ==
    /\ FormatterReturned
    /\ args.o = FormatterDefaults
    /\ args.items = <<<<"meter", Half(0)>>, <<"second", Exp(0)>>>>
    /\ locals.pos_terms = <<"meter ** 0.5">>
    /\ locals.neg_terms = <<"second ** 0">>
    /\ ret.value = "meter ** 0.5 / second ** 0"

----------------------------------------------------------------------------
(* Calls of Formatter.formatter with a locale *)

MaxBabelItems == 2

\* meter and second are localizable, knot is not
BabelUnitPool == {"knot", "meter", "second"}

BabelItemSeqs ==
    {s \in SeqsUpTo(BabelUnitPool \X ExpSet, MaxBabelItems) :
        \A i, j \in 1..Len(s) : i # j => s[i][1] # s[j][1]}

\* "fr_FR" has patterns of every length; "xx" has none of the length "long"
BabelLocales == {"fr_FR", "xx"}

\* "medium" is not one of _babel_lengths
BabelLengths == {"long", "short", "medium"}

BabelOptions ==
    {[FormatterDefaults EXCEPT !.as_ratio = r, !.sort = srt, !.locale = loc,
                               !.babel_length = len, !.babel_plural_form = pl] :
        r \in BOOLEAN, srt \in BOOLEAN, loc \in BabelLocales, len \in BabelLengths,
        pl \in {"one", "other"}}

InitBabel ==
    /\ _FORMATTERS = BuiltinFormatters
    /\ fmt_locale = None
    /\ default_format = ""
    /\ separate_format_defaults = None
    /\ locale_calls = << >>
    /\ op = "start"
    /\ args \in [dim_order : {DefaultDimOrder}, items : BabelItemSeqs, o : BabelOptions]
    /\ ret = Pending
    /\ locals = << >>

NextBabel == Call_formatter

SpecBabel == InitBabel /\ [][NextBabel]_vars

\* a call of formatter with items and a locale has returned
BabelReturned ==
    /\ op = "formatter"
    /\ Len(args.items) > 0
    /\ args.o.locale # None
    /\ ret.kind = "return"

\* the plural form the pattern of an item is looked up with
PluralOf(o, item) == IF item[2] = 0 THEN "one" ELSE o.babel_plural_form

\* the name of the unit in the pattern of a length: the pattern without its
\* placeholder, or None when the length has no pattern
PatternName(o, item, length) ==
    LET pat == unit_patterns_get(o.locale, _babel_units[item[1]], length, PluralOf(o, item))
    IN  IF pat = None THEN None ELSE Strip(Replace(pat, "{0}", ""))

\* the names the claim allows for a localizable item: that of the requested
\* length; failing that, those of the other lengths; failing those, the raw
\* token
FallbackNames(o, item) ==
    LET others == {PatternName(o, item, _babel_lengths[k]) : k \in 1..Len(_babel_lengths)}
                      \ {None}
    IN  IF PatternName(o, item, o.babel_length) # None
        THEN {PatternName(o, item, o.babel_length)}
        ELSE IF others # {} THEN others
        ELSE {item[1]}

\* the names the code gives: the other lengths are tried, long first, only
\* for a requested length that is not one of _babel_lengths
TriedNames(o, item) ==
    IF PatternName(o, item, o.babel_length) # None
    THEN {PatternName(o, item, o.babel_length)}
    ELSE IF o.babel_length \in {_babel_lengths[k] : k \in 1..Len(_babel_lengths)}
         THEN {item[1]}
    ELSE IF PatternName(o, item, "long") # None THEN {PatternName(o, item, "long")}
    ELSE IF PatternName(o, item, "short") # None THEN {PatternName(o, item, "short")}
    ELSE IF PatternName(o, item, "narrow") # None THEN {PatternName(o, item, "narrow")}
    ELSE {item[1]}

\* the term of a localizable item when its name is key
LocalTerm(o, item, key) ==
    IF item[2] = Exp(1) \/ (item[2] = Exp(-1) /\ o.as_ratio) THEN key
    ELSE key \o fun(o, "_pretty_fmt_exponent", item[2])

\* the terms in the order of the loop: the positive list has the items with
\* an exponent above 0, the negative list the others
TermAt(seq, i) ==
    LET item == seq[i]
        before == SubSeq(seq, 1, i)
    IN  IF item[2] > 0
        THEN locals.pos_terms[Len(SelectSeq(before, LAMBDA it : it[2] > 0))]
        ELSE locals.neg_terms[Len(SelectSeq(before, LAMBDA it : it[2] <= 0))]

\* every localizable item of the call has one of the names Names allows
LocalizedBy(Names(_, _)) ==
    \A i \in 1..Len(LoopItems) :
        LoopItems[i][1] \in DOMAIN _babel_units =>
            \E key \in Names(args.o, LoopItems[i]) :
                TermAt(LoopItems, i) = LocalTerm(args.o, LoopItems[i], key)

\* C14: with a locale and a plural form, the token of a localizable unit is
\* replaced by the locale's name for the plural form and the requested
\* length; when the requested length has no pattern for the unit and the
\* plural form, the name of another length is used (requested "long" falls
\* back to the remaining lengths), and the raw token stays only when no
\* length has one.
C14_Original == BabelReturned => LocalizedBy(FallbackNames)

\* C14 as the code has it: the other lengths are tried only when the
\* requested length is not one of _babel_lengths
C14_TriedLengths == BabelReturned => LocalizedBy(TriedNames)

\* the plural name of the requested length was put in place of the token
C14_Witness ==
    /\ BabelReturned
    /\ args.o = [FormatterDefaults EXCEPT !.locale = "fr_FR", !.babel_plural_form = "other"]
    /\ args.items = <<<<"meter", Exp(1)>>, <<"second", Exp(-2)>>>>
    /\ ret.value = "mètres par secondes²"

\* the term of an item under the claim: once a localizable item was met
\* (switched), power_fmt is "{}{}" and the exponent is rendered by
\* _pretty_fmt_exponent, in ratio mode and in product mode alike; before
\* that the caller's power_fmt and exp_call are used
StickyTerm(o, item, key, switched) ==
    IF item[2] = Exp(1) \/ (item[2] = Exp(-1) /\ o.as_ratio) THEN key
    ELSE Format(IF switched THEN "{}{}" ELSE o.power_fmt,
                <<key, CallExp(IF switched THEN "_pretty_fmt_exponent" ELSE o.exp_call,
                               IF o.as_ratio THEN Abs(item[2]) ELSE item[2])>>)

\* the locals of the claim after the items i, i+1, ...: st has pos_terms,
\* neg_terms, division_fmt and switched
RECURSIVE StickyLoop(_, _, _, _)
StickyLoop(o, items, i, st) ==
    IF i > Len(items) THEN st
    ELSE LET item == items[i]
             loc == Localizable(o, item[1])
             switched == st.switched \/ loc
             key == IF loc THEN Localize(o, LoopStart(o), item).key ELSE item[1]
             per == compound_per_get(o.locale, o.babel_length)
             term == StickyTerm(o, item, key, switched)
         IN  StickyLoop(o, items, i + 1,
                 [pos_terms |-> IF item[2] > 0 THEN Append(st.pos_terms, term)
                                ELSE st.pos_terms,
                  neg_terms |-> IF item[2] > 0 THEN st.neg_terms
                                ELSE Append(st.neg_terms, term),
                  division_fmt |-> IF loc /\ per # None THEN per ELSE st.division_fmt,
                  switched |-> switched])

StickyResult ==
    StickyLoop(args.o, LoopItems, 1,
               [pos_terms |-> << >>, neg_terms |-> << >>,
                division_fmt |-> args.o.division_fmt, switched |-> FALSE])

\* the terms and the result are those of the sticky switch
StickySwitch ==
    \E st \in {StickyResult} :
        /\ locals.pos_terms = st.pos_terms
        /\ locals.neg_terms = st.neg_terms
        /\ locals.division_fmt = st.division_fmt
        /\ ret.value = Assemble(args.o, st)

\* C17: in a call with a locale the first localizable item switches
\* division_fmt, power_fmt and the exponent renderer to the locale's template,
\* "{}{}" and _pretty_fmt_exponent; the switch holds for every later item,
\* localizable or not, and for the final join, with as_ratio true and with
\* as_ratio false; the terms of the items before it keep the caller's
\* power_fmt and exponent renderer.
C17_Original == BabelReturned => StickySwitch

\* C17 in ratio mode
C17_RatioMode == (BabelReturned /\ args.o.as_ratio) => StickySwitch

\* in product mode the exponents are rendered by the caller's exp_call
\* throughout, power_fmt being switched as in ratio mode
C17_ProductMode ==
    (BabelReturned /\ ~args.o.as_ratio) =>
        \A i \in 1..Len(LoopItems) :
            LoopItems[i][2] # Exp(1) =>
                \E key \in IF LoopItems[i][1] \in DOMAIN _babel_units
                            THEN TriedNames(args.o, LoopItems[i])
                            ELSE {LoopItems[i][1]} :
                    \E pf \in {"{}{}", args.o.power_fmt} :
                        TermAt(LoopItems, i) =
                            Format(pf, <<key, CallExp(args.o.exp_call, LoopItems[i][2])>>)

\* a unit without a locale name, after a localizable one, got the switched
\* templates and renderer
C17_Witness ==
    /\ BabelReturned
    /\ args.o = [FormatterDefaults EXCEPT !.locale = "fr_FR", !.sort = FALSE]
    /\ args.items = <<<<"meter", Exp(2)>>, <<"knot", Exp(-2)>>>>
    /\ ret.value = "mètre² par knot²"

----------------------------------------------------------------------------
(* Calls of Formatter.siunitx_format_unit *)

MaxSiunitxItems == 2

\* unit names without a prefix, with one prefix, and with two prefixes one
\* after the other
SiunitxUnits == {"meter", "kilometer", "milligram", "millikilogram", "kilomilligram"}

\* the integers -(MaxExp+1) .. MaxExp+2 and 0.5, 1.5, -1.5
SiunitxExps ==
    {Exp(n) : n \in (-(MaxExp + 1))..(MaxExp + 2)} \cup {Half(0), Half(1), Half(-2)}

\* the items of a units container, no unit twice
SiunitxItemSeqs ==
    {s \in SeqsUpTo(SiunitxUnits \X SiunitxExps, MaxSiunitxItems) :
        \A i, j \in 1..Len(s) : i # j => s[i][1] # s[j][1]}

InitSiunitx ==
    /\ _FORMATTERS = BuiltinFormatters
    /\ fmt_locale = None
    /\ default_format = ""
    /\ separate_format_defaults = None
    /\ locale_calls = << >>
    /\ op = "start"
    /\ args \in [units : SiunitxItemSeqs, registry : {ureg}]
    /\ ret = Pending
    /\ locals = << >>

Call_siunitx_format_unit ==
    /\ op = "start"
    /\ op' = "siunitx_format_unit"
    /\ ret' = Return(siunitx_format_unit(args.units, args.registry))
    /\ UNCHANGED <<_FORMATTERS, fmt_locale, default_format, separate_format_defaults,
                   locale_calls, args, locals>>

NextSiunitx == Call_siunitx_format_unit

SpecSiunitx == InitSiunitx /\ [][NextSiunitx]_vars

\* the concatenation of what Term gives for the units in alphabetical order,
\* those with an exponent >= 0 first
SiunitxOutput(Term(_), units) ==
    LET su == sorted(units)
        lpos == SelectSeq(su, LAMBDA it : it[2] >= 0)
        lneg == SelectSeq(su, LAMBDA it : it[2] < 0)
    IN  ConcatAll([k \in 1..Len(lpos) |-> Term(lpos[k])])
        \o ConcatAll([k \in 1..Len(lneg) |-> Term(lneg[k])])

\* the prefix names the unit name starts with
MatchingPrefixes(unit) ==
    {PrefixNames[k] : k \in {j \in 1..Len(PrefixNames) :
        Len(PrefixNames[j]) > 0 /\ StartsWithAt(unit, PrefixNames[j], 1)}}

\* the longest prefix name the unit name starts with as \<prefix>, then the
\* rest of the name as \<unit>; the name alone when it starts with none
LongestPrefixSplit(unit) ==
    IF MatchingPrefixes(unit) = {} THEN "\\" \o unit
    ELSE LET p == CHOOSE q \in MatchingPrefixes(unit) :
                      \A r \in MatchingPrefixes(unit) : Len(r) <= Len(q)
         IN  "\\" \o p \o "\\" \o SubSeq(unit, Len(p) + 1, Len(unit))

\* the term of a unit with one prefix stripped
OnePrefixTerm(item) ==
    (IF item[2] < 0 THEN "\\per" ELSE "") \o LongestPrefixSplit(item[1])
        \o _tothe(Abs(item[2]))

\* a call of siunitx_format_unit has returned
SiunitxReturned == op = "siunitx_format_unit" /\ ret.kind = "return"

\* C15: siunitx_format_unit strips at most one prefix from a unit name, the
\* longest prefix name of the registry that the name starts with, and emits
\* it as \<prefix> right before \<unit>, the name without that one prefix; a
\* name that starts with no prefix name is emitted as it is, without a prefix
\* command.
C15_Original ==
    SiunitxReturned => ret.value = SiunitxOutput(OnePrefixTerm, args.units)

\* C15 for the names from which the loop strips one prefix name at most: no
\* prefix name begins the rest of the name
C15_SinglePrefix ==
    (SiunitxReturned /\ \A i \in 1..Len(args.units) :
                            args.units[i][1] # "millikilogram")
        => ret.value = SiunitxOutput(OnePrefixTerm, args.units)

\* one prefix was stripped from each of two names
C15_Witness ==
    /\ SiunitxReturned
    /\ args.units = <<<<"milligram", Exp(1)>>, <<"kilometer", Exp(-2)>>>>
    /\ ret.value = "\\milli\\gram\\per\\kilo\\meter\\squared"

\* the power suffix of the claim: trailing zeros cut from the three decimals
TrimmedPower(power) ==
    IF power = Exp(1) THEN ""
    ELSE IF power = Exp(2) THEN "\\squared"
    ELSE IF power = Exp(3) THEN "\\cubed"
    ELSE IF power % 2 = 0 THEN "\\tothe{" \o IntStr(power \div 2) \o "}"
    ELSE "\\tothe{" \o IntStr(power \div 2) \o ".5}"

\* the term of a unit with the power suffix of the claim
TrimmedPowerTerm(item) ==
    LET sp == StripPrefixes(None, item[1], 1)
    IN  (IF item[2] < 0 THEN "\\per" ELSE "")
        \o (IF sp.prefix # None THEN "\\" \o sp.prefix ELSE "")
        \o "\\" \o sp.unit
        \o TrimmedPower(Abs(item[2]))

\* C16: the power suffix for |exponent| is empty for 1, \squared for 2,
\* \cubed for 3, \tothe{n} for another integer, and for a non-integer
\* \tothe{x.xxx} of three decimals with the trailing zeros removed from the
\* number: \tothe{0.5} for 0.5, not \tothe{0.500}.
C16_Original ==
    SiunitxReturned => ret.value = SiunitxOutput(TrimmedPowerTerm, args.units)

\* C16 for the integer exponents
C16_IntegerPowers ==
    (SiunitxReturned /\ \A i \in 1..Len(args.units) : args.units[i][2] % 2 = 0)
        => ret.value = SiunitxOutput(TrimmedPowerTerm, args.units)

\* the suffixes of the integers 4 and 3 were emitted
C16_Witness ==
    /\ SiunitxReturned
    /\ args.units = <<<<"meter", Exp(4)>>, <<"milligram", Exp(-3)>>>>
    /\ ret.value = "\\meter\\tothe{4}\\per\\milli\\gram\\cubed"

----------------------------------------------------------------------------
(* Calls of Formatter.dim_sort *)

MaxDimItems == 3

DimUnits == {"meter", "metre", "second", "knot", "radian", "kelvin", "dimensionless"}

DimOrders == {DefaultDimOrder, <<"[time]", "[length]">>}

DimItemSeqs ==
    {s \in SeqsUpTo(DimUnits \X {Exp(1), Exp(-2)}, MaxDimItems) :
        \A i, j \in 1..Len(s) : i # j => s[i][1] # s[j][1]}

InitDimSort ==
    /\ _FORMATTERS = BuiltinFormatters
    /\ fmt_locale = None
    /\ default_format = ""
    /\ separate_format_defaults = None
    /\ locale_calls = << >>
    /\ op = "start"
    /\ args \in [dim_order : DimOrders, items : DimItemSeqs, registry : {None, ureg}]
    /\ ret = Pending
    /\ locals = << >>

Call_dim_sort ==
    /\ op = "start"
    /\ op' = "dim_sort"
    /\ ret' = dim_sort(args.dim_order, args.items, args.registry)
    /\ UNCHANGED <<_FORMATTERS, fmt_locale, default_format, separate_format_defaults,
                   locale_calls, args, locals>>

NextDimSort == Call_dim_sort

SpecDimSort == InitDimSort /\ [][NextDimSort]_vars

\* the dimension tokens of a unit, "[]" standing for an empty dimensionality
DimsOf(unit_name) ==
    LET dims == get_dimensionality(get_name(unit_name))
    IN  IF dims = {} THEN {"[]"} ELSE dims

\* the place in dim_order of the unit's bucket: the least k with dim_order[k]
\* among the unit's dimensions (0 when there is none)
BucketOf(dim_order, unit_name) ==
    IF \E k \in 1..Len(dim_order) : dim_order[k] \in DimsOf(unit_name)
    THEN CHOOSE k \in 1..Len(dim_order) :
            /\ dim_order[k] \in DimsOf(unit_name)
            /\ \A m \in 1..(k - 1) : dim_order[m] \notin DimsOf(unit_name)
    ELSE 0

\* the buckets k, k+1, ... of seq concatenated, each in the order of seq
RECURSIVE Buckets(_, _, _)
Buckets(dim_order, seq, k) ==
    IF k > Len(dim_order) THEN << >>
    ELSE SelectSeq(seq, LAMBDA it : BucketOf(dim_order, it[1]) = k)
         \o Buckets(dim_order, seq, k + 1)

\* dim_sort was called with a registry and at least two items, and returned
DimSortReturned ==
    /\ op = "dim_sort"
    /\ args.registry # None
    /\ Len(args.items) >= 2
    /\ ret.kind = "return"

\* the units of the result with a [time] dimension come before those that
\* have only [length]
TimeBeforeLength ==
    \A i, j \in 1..Len(ret.value) :
        ("[time]" \in DimsOf(ret.value[i][1]) /\ DimsOf(ret.value[j][1]) = {"[length]"})
            => i < j

\* C10: dim_sort with a registry and at least two items puts each unit in the
\* bucket of the first token of the dimension order that is in the unit's
\* dimensionality ("[]" for an empty one) and returns the buckets concatenated
\* in dimension order, the input's order kept inside a bucket; so with the
\* order [time, length] a unit with [time] precedes a unit with only [length].
C10_Original ==
    DimSortReturned =>
        /\ ret.value = Buckets(args.dim_order, args.items, 1)
        /\ args.dim_order = <<"[time]", "[length]">> => TimeBeforeLength

\* C10 for the units the registry names: the result is the buckets of the
\* items whose name get_name resolves, concatenated in dimension order
C10_ResolvedBuckets ==
    DimSortReturned =>
        /\ ret.value = Buckets(args.dim_order,
                               SelectSeq(args.items, LAMBDA it : get_name(it[1]) # ""), 1)
        /\ args.dim_order = <<"[time]", "[length]">> => TimeBeforeLength

\* the units were regrouped: [length] before [] before [time]
C10_Witness ==
    /\ DimSortReturned
    /\ args.dim_order = DefaultDimOrder
    /\ args.items = <<<<"second", Exp(1)>>, <<"radian", Exp(1)>>, <<"meter", Exp(-2)>>>>
    /\ ret.value = <<<<"meter", Exp(-2)>>, <<"radian", Exp(1)>>, <<"second", Exp(1)>>>>

\* dim_sort was called with a registry and at least two items
DimSortCalled ==
    /\ op = "dim_sort"
    /\ args.registry # None
    /\ Len(args.items) >= 2

\* the places of the items none of whose dimensions is in the dimension order
Unmatched(dim_order, items) ==
    {i \in 1..Len(items) : BucketOf(dim_order, items[i][1]) = 0}

\* the outcome is a KeyError (a LookupError) whose message names unit_name
LookupErrorNaming(outcome, unit_name) ==
    /\ outcome.kind = "raise"
    /\ outcome.error = "KeyError"
    /\ Contains(outcome.msg, "Unit " \o unit_name \o " ")

\* C11: with a registry and at least two items, dim_sort raises a lookup
\* error naming the unit whenever the dimensionality of some item ("[]" for
\* an empty one) has none of the tokens of the dimension order; no list is
\* returned then.
C11_Original ==
    (DimSortCalled /\ Unmatched(args.dim_order, args.items) # {}) =>
        \E i \in Unmatched(args.dim_order, args.items) :
            LookupErrorNaming(ret, args.items[i][1])

\* C11 for the units the registry names: when some item with a non-empty
\* canonical name matches no token, dim_sort raises KeyError naming the first
\* such item; otherwise it returns
C11_ResolvedUnmatched ==
    DimSortCalled =>
        LET bad == {i \in Unmatched(args.dim_order, args.items) :
                        get_name(args.items[i][1]) # ""}
        IN  IF bad = {} THEN ret.kind = "return"
            ELSE LookupErrorNaming(ret, args.items[CHOOSE i \in bad :
                                                      \A j \in bad : i <= j][1])

\* kelvin, after a second that was already put in its bucket, has raised
C11_Witness ==
    /\ DimSortCalled
    /\ args.dim_order = <<"[time]", "[length]">>
    /\ args.items = <<<<"second", Exp(1)>>, <<"kelvin", Exp(1)>>>>
    /\ ret = Raise("KeyError", "Unit kelvin (aka kelvin) has no recognized dimensions")

\* how many times the pair x is in seq
Occurrences(seq, x) == Cardinality({i \in 1..Len(seq) : seq[i] = x})

\* a has the pairs of b, each as many times, and no other
IsPermutation(a, b) ==
    /\ Len(a) = Len(b)
    /\ \A i \in 1..Len(b) : Occurrences(a, b[i]) = Occurrences(b, b[i])

\* formatter(items, sort_dims=True, registry=registry) with the other options
\* at their defaults
FormattedWithRegistry(dim_order, items, registry) ==
    formatter(dim_order, items, [FormatterDefaults EXCEPT !.registry = registry])

\* C19: whenever dim_sort returns, its result is a permutation of its input:
\* every (unit, exponent) pair of the input is in it once and nothing else
\* is, the units whose canonical name the registry does not resolve among
\* them; so the string formatter makes of the items names every unit of the
\* input.
C19_Original ==
    (op = "dim_sort" /\ ret.kind = "return") =>
        /\ IsPermutation(ret.value, args.items)
        /\ \A i \in 1..Len(args.items) :
               Contains(FormattedWithRegistry(args.dim_order, args.items,
                                              args.registry).value,
                        args.items[i][1])

\* C19 for the units the registry names: the result is a permutation of the
\* items with a non-empty canonical name
C19_ResolvedPermutation ==
    (DimSortReturned /\ ret.kind = "return") =>
        IsPermutation(ret.value,
                      SelectSeq(args.items, LAMBDA it : get_name(it[1]) # ""))

\* three units came back regrouped, none lost: the two with [length] first
C19_Witness ==
    /\ DimSortReturned
    /\ args.dim_order = DefaultDimOrder
    /\ args.items = <<<<"kelvin", Exp(1)>>, <<"knot", Exp(-2)>>, <<"metre", Exp(1)>>>>
    /\ ret.value = <<<<"knot", Exp(-2)>>, <<"metre", Exp(1)>>, <<"kelvin", Exp(1)>>>>

----------------------------------------------------------------------------
(* The format registry: _FORMATTERS, register_unit_format, format_unit *)

\* name in _FORMATTERS
Registered(F, name) == \E k \in 1..Len(F) : F[k][1] = name

\* _FORMATTERS.get(name)
Lookup(F, name) ==
    IF Registered(F, name) THEN F[CHOOSE k \in 1..Len(F) : F[k][1] = name][2]
    ELSE None

\* a wrapper that stores the callable whatever the registry holds
register_overwrite(F, name, func) ==
    [ret |-> Return(None),
     F |-> IF Registered(F, name)
           THEN [k \in 1..Len(F) |-> IF F[k][1] = name THEN <<name, func>> ELSE F[k]]
           ELSE Append(F, <<name, func>>)]

\* register_unit_format(name)(func): the outcome and the registry after it
register_unit_format(F, name, func) ==
    IF Registered(F, name)
    THEN [ret |-> Raise("ValueError", "format '" \o name \o "' already exists"), F |-> F]
    ELSE [ret |-> Return(None), F |-> Append(F, <<name, func>>)]

\* a lookup that falls back to the default format when the name is unknown
format_unit_fallback(F, dim_order, unit, spec, registry, options) ==
    IF Len(unit) = 0
    THEN [ret |-> Return(IF EndsWith(spec, "%") THEN "" ELSE "dimensionless"),
          locals |-> [spec |-> spec, fmt |-> None, called |-> FALSE]]
    ELSE LET spec1 == IF spec = "" THEN "D" ELSE spec
             fmt == IF Registered(F, spec1) THEN Lookup(F, spec1) ELSE Lookup(F, "D")
         IN  [ret |-> CallFormat(fmt, dim_order, unit, registry, options),
              locals |-> [spec |-> spec1, fmt |-> fmt, called |-> TRUE]]

\* the body the module-level format_unit and Formatter.format_unit share;
\* the first passes registry=None and the second its registry argument to
\* the callable.  locals.called tells whether a callable was invoked.
format_unit(F, dim_order, unit, spec, registry, options) ==
    IF Len(unit) = 0
    THEN [ret |-> Return(IF EndsWith(spec, "%") THEN "" ELSE "dimensionless"),
          locals |-> [spec |-> spec, fmt |-> None, called |-> FALSE]]
    ELSE LET spec1 == IF spec = "" THEN "D" ELSE spec
             fmt == Lookup(F, spec1)
         IN  IF fmt = None
             THEN [ret |-> Raise("ValueError", "Unknown conversion specified: " \o spec1),
                   locals |-> [spec |-> spec1, fmt |-> None, called |-> FALSE]]
             ELSE [ret |-> CallFormat(fmt, dim_order, unit, registry, options),
                   locals |-> [spec |-> spec1, fmt |-> fmt, called |-> TRUE]]

\* no keyword argument besides registry
NoOptions == [x \in {} |-> None]

\* the names given to register_unit_format
RegisterNames == {"P", "custom", "Q"}

\* the unit maps given to format_unit
UnitMaps == {<< >>, <<<<"meter", Exp(1)>>>>, <<<<"meter", Exp(1)>>, <<"second", Exp(-2)>>>>}

\* the spec strings given to format_unit
UnitSpecs == {"", "D", "P", "L", "Lx", "H", "C", "custom", "Q", "~P", ".2f", "%", "Q%"}

InitRegistry ==
    /\ _FORMATTERS = BuiltinFormatters
    /\ fmt_locale = None
    /\ default_format = ""
    /\ separate_format_defaults = None
    /\ locale_calls = << >>
    /\ op = "start"
    /\ args = << >>
    /\ ret = Pending
    /\ locals = << >>

Call_register_unit_format ==
    \E name \in RegisterNames, func \in CustomFormatters :
        \E run \in {register_unit_format(_FORMATTERS, name, func)} :
            /\ op' = "register_unit_format"
            /\ args' = [name |-> name, func |-> func]
            /\ ret' = run.ret
            /\ _FORMATTERS' = run.F
            /\ locals' = << >>
            /\ UNCHANGED <<fmt_locale, default_format, separate_format_defaults, locale_calls>>

\* format_unit(unit, spec) of the module
Call_format_unit ==
    \E unit \in UnitMaps, spec \in UnitSpecs :
        \E run \in {format_unit(_FORMATTERS, DefaultDimOrder, unit, spec, None, NoOptions)} :
            /\ op' = "format_unit"
            /\ args' = [unit |-> unit, spec |-> spec, registry |-> None]
            /\ ret' = run.ret
            /\ locals' = run.locals
            /\ UNCHANGED <<_FORMATTERS, fmt_locale, default_format,
                           separate_format_defaults, locale_calls>>

\* Formatter().format_unit(unit, spec, registry)
Call_Formatter_format_unit ==
    \E unit \in UnitMaps, spec \in UnitSpecs, registry \in {None, ureg} :
        \E run \in {format_unit(_FORMATTERS, DefaultDimOrder, unit, spec, registry, NoOptions)} :
            /\ op' = "Formatter.format_unit"
            /\ args' = [unit |-> unit, spec |-> spec, registry |-> registry]
            /\ ret' = run.ret
            /\ locals' = run.locals
            /\ UNCHANGED <<_FORMATTERS, fmt_locale, default_format,
                           separate_format_defaults, locale_calls>>

NextRegistry ==
    \/ Call_register_unit_format
    \/ Call_format_unit
    \/ Call_Formatter_format_unit

SpecRegistry == InitRegistry /\ [][NextRegistry]_vars

\* the names a lookup is made with
AllNames == RegisterNames \cup {BuiltinFormatters[k][1] : k \in 1..Len(BuiltinFormatters)}

\* C1: a registration under a name that is already registered raises
\* ValueError and leaves the registry as it was, so every lookup answers as
\* before; a registration under a new name stores the callable under that
\* name and leaves every other entry as it was.  This holds at every step of
\* every sequence of registrations and renders.
C1_RegisterDuplicate ==
    [][(op' = "register_unit_format") =>
          IF Registered(_FORMATTERS, args'.name)
          THEN /\ ret'.kind = "raise"
               /\ ret'.error = "ValueError"
               /\ Contains(ret'.msg, args'.name)
               /\ _FORMATTERS' = _FORMATTERS
               /\ \A n \in AllNames : Lookup(_FORMATTERS', n) = Lookup(_FORMATTERS, n)
          ELSE /\ ret'.kind = "return"
               /\ Lookup(_FORMATTERS', args'.name) = args'.func
               /\ \A n \in AllNames \ {args'.name} :
                      Lookup(_FORMATTERS', n) = Lookup(_FORMATTERS, n)
               /\ Len(_FORMATTERS') = Len(_FORMATTERS) + 1]_vars

\* a second registration of "custom", with another callable, has raised and
\* the first callable is still the one registered
C1_Witness ==
    /\ op = "register_unit_format"
    /\ args = [name |-> "custom", func |-> "format_other"]
    /\ ret.kind = "raise"
    /\ Lookup(_FORMATTERS, "custom") = "format_custom"
    /\ Len(_FORMATTERS) = Len(BuiltinFormatters) + 1

\* a call of either format_unit has ended
FormatUnitCalled == op \in {"format_unit", "Formatter.format_unit"}

\* the outcome the claim gives for a spec that is not a registered name
UnknownFormatError ==
    /\ ret.kind = "raise"
    /\ ret.error = "ValueError"
    /\ Contains(ret.msg, args.spec)
    /\ ~locals.called

\* C2 as stated: a non-empty spec that is not a registered name makes
\* format_unit raise the unknown-format error for every unit map, the empty
\* one included.
C2_Original ==
    (FormatUnitCalled /\ args.spec # "" /\ ~Registered(_FORMATTERS, args.spec))
        => UnknownFormatError

\* C2: for a unit map that is not empty, a non-empty spec that is not a
\* registered name makes format_unit raise ValueError with the spec in its
\* message, and no callable is invoked; for the empty unit map format_unit
\* returns "" (spec ending in "%") or "dimensionless" before any lookup.
C2_UnknownFormat ==
    (FormatUnitCalled /\ args.spec # "" /\ ~Registered(_FORMATTERS, args.spec))
        => IF Len(args.unit) > 0
           THEN /\ UnknownFormatError
                /\ ret.msg = "Unknown conversion specified: " \o args.spec
           ELSE /\ ret = Return(IF EndsWith(args.spec, "%") THEN "" ELSE "dimensionless")
                /\ ~locals.called

\* format_unit has raised for "Q" on meter / second ** 2 while "Q" was not
\* registered
C2_Witness ==
    /\ op = "Formatter.format_unit"
    /\ args.unit = <<<<"meter", Exp(1)>>, <<"second", Exp(-2)>>>>
    /\ args.spec = "Q"
    /\ ~Registered(_FORMATTERS, "Q")
    /\ ret = Raise("ValueError", "Unknown conversion specified: Q")

----------------------------------------------------------------------------
(* The spec splitter: extract_custom_flags, remove_custom_flags and          *)
(* split_format.  The format names are plain words (no character that is     *)
(* special in a regular expression, no empty name).                          *)

\* list(_FORMATTERS.keys())
Keys(F) == [k \in 1..Len(F) |-> F[k][1]]

\* name put after the names of seq that are at least as long
InsertByLen(name, seq) ==
    LET k == Cardinality({j \in 1..Len(seq) : Len(seq[j]) >= Len(name)})
    IN  SubSeq(seq, 1, k) \o <<name>> \o SubSeq(seq, k + 1, Len(seq))

\* sorted(keys, key=len, reverse=True): longest first, names of one length in
\* the order of keys
RECURSIVE SortedByLen(_)
SortedByLen(keys) ==
    IF Len(keys) = 0 THEN << >>
    ELSE InsertByLen(keys[Len(keys)], SortedByLen(SubSeq(keys, 1, Len(keys) - 1)))

\* sorted(_FORMATTERS.keys(), key=len, reverse=True) + ["~"]
KnownFlags(F) == SortedByLen(Keys(F)) \o <<"~">>

\* the first alternative of the pattern that matches at position i, or None
RECURSIVE MatchAt(_, _, _, _)
MatchAt(flags, spec, i, k) ==
    IF k > Len(flags) THEN None
    ELSE IF Len(flags[k]) > 0 /\ StartsWithAt(spec, flags[k], i) THEN flags[k]
    ELSE MatchAt(flags, spec, i, k + 1)

\* "".join(flag_re.findall(spec)), scanning from position i
RECURSIVE FindAll(_, _, _)
FindAll(flags, spec, i) ==
    IF i > Len(spec) THEN ""
    ELSE LET m == MatchAt(flags, spec, i, 1)
         IN  IF m = None THEN FindAll(flags, spec, i + 1)
             ELSE m \o FindAll(flags, spec, i + Len(m))

extract_custom_flags(F, spec) ==
    IF spec = "" THEN "" ELSE FindAll(KnownFlags(F), spec, 1)

\* the for loop of remove_custom_flags from its k-th flag on
RECURSIVE RemoveFlags(_, _, _)
RemoveFlags(flags, spec, k) ==
    IF k > Len(flags) THEN spec
    ELSE RemoveFlags(flags,
                     IF Len(flags[k]) > 0 THEN Replace(spec, flags[k], "") ELSE spec,
                     k + 1)

remove_custom_flags(F, spec) == RemoveFlags(KnownFlags(F), spec, 1)

\* the two DeprecationWarnings of split_format, by their first sentence
NoUnitFormatterWarning == "The given format spec does not contain a unit formatter."

NoMagnitudeFormatterWarning == "The given format spec does not contain a magnitude formatter."

\* split_format from line 456 on with every empty half taken from the
\* default, whatever separate_format_defaults is
SplitResult_merge(spec, sfd, mspec, uspec, default_mspec, default_uspec) ==
    [mspec |-> IF mspec # "" THEN mspec ELSE default_mspec,
     uspec |-> IF uspec # "" THEN uspec ELSE default_uspec,
     warnings |-> << >>]

\* split_format from line 456 on, given the four strings it has computed
SplitResult(spec, sfd, mspec, uspec, default_mspec, default_uspec) ==
    IF sfd \in {"False", None}
    THEN IF spec # "" /\ sfd = None
         THEN [mspec |-> mspec, uspec |-> uspec,
               warnings |->
                   (IF uspec = "" /\ default_uspec # ""
                    THEN <<NoUnitFormatterWarning>> ELSE << >>)
                   \o (IF mspec = "" /\ default_mspec # ""
                       THEN <<NoMagnitudeFormatterWarning>> ELSE << >>)]
         ELSE IF spec = ""
              THEN [mspec |-> default_mspec, uspec |-> default_uspec, warnings |-> << >>]
              ELSE [mspec |-> mspec, uspec |-> uspec, warnings |-> << >>]
    ELSE [mspec |-> IF mspec # "" THEN mspec ELSE default_mspec,
          uspec |-> IF uspec # "" THEN uspec ELSE default_uspec,
          warnings |-> << >>]

\* Formatter.split_format, which the quantity and the unit call: the pair it
\* returns and the warnings it issues.  (Each of the four strings is computed
\* once and bound, as the assignments of the code do.)
split_format(F, spec, default, sfd) ==
    CHOOSE r \in {SplitResult(spec, sfd, mspec, uspec, default_mspec, default_uspec) :
                     mspec \in {remove_custom_flags(F, spec)},
                     uspec \in {extract_custom_flags(F, spec)},
                     default_mspec \in {remove_custom_flags(F, default)},
                     default_uspec \in {extract_custom_flags(F, default)}} : TRUE

----------------------------------------------------------------------------
(* Calls of split_format on a registry that takes registrations *)

MaxSpecLen == 4

\* the characters of the spec strings: flag characters, the characters of a
\* registered name and a digit
SpecAlphabet == {"L", "x", "a", "b", "2"}

RECURSIVE StringsUpTo(_)
StringsUpTo(n) ==
    IF n = 0 THEN {""}
    ELSE LET shorter == StringsUpTo(n - 1)
         IN  shorter \cup {s \o c : s \in shorter, c \in SpecAlphabet}

SplitSpecs == StringsUpTo(MaxSpecLen)

\* the default_format values given to split_format
SplitDefaults == {"", ".2f~P"}

\* the names registered while the program runs
FlagNames == {"ab"}

\* the arguments of the split_format call are drawn at the start; the
\* registrations come before the call
InitSplit ==
    /\ _FORMATTERS = BuiltinFormatters
    /\ fmt_locale = None
    /\ default_format = ""
    /\ separate_format_defaults = None
    /\ locale_calls = << >>
    /\ op = "start"
    /\ args \in [spec : SplitSpecs, default : SplitDefaults,
                 separate_format_defaults : {"True", "False", None}]
    /\ ret = Pending
    /\ locals = << >>

\* register_unit_format(name)(format_custom)
Call_register_flag ==
    \E name \in FlagNames :
        \E run \in {register_unit_format(_FORMATTERS, name, "format_custom")} :
            /\ op = "start"
            /\ ret' = run.ret
            /\ _FORMATTERS' = run.F
            /\ UNCHANGED <<fmt_locale, default_format, separate_format_defaults,
                           locale_calls, op, args, locals>>

\* Formatter().split_format(spec, default, separate_format_defaults)
Call_split_format ==
    \E run \in {split_format(_FORMATTERS, args.spec, args.default,
                             args.separate_format_defaults)} :
        /\ op = "start"
        /\ op' = "split_format"
        /\ ret' = Return(<<run.mspec, run.uspec>>)
        /\ locals' = [warnings |-> run.warnings]
        /\ UNCHANGED <<_FORMATTERS, fmt_locale, default_format,
                       separate_format_defaults, locale_calls, args>>

NextSplit ==
    \/ Call_register_flag
    \/ Call_split_format

SpecSplit == InitSplit /\ [][NextSplit]_vars

\* how many times the character c is in s
Count(s, c) == Cardinality({i \in 1..Len(s) : Ch(s, i) = c})

\* the characters of s
CharsOf(s) == {Ch(s, i) : i \in 1..Len(s)}

\* a and b have the same characters, each as many times
SameMultiset(a, b) == \A c \in CharsOf(a) \cup CharsOf(b) : Count(a, c) = Count(b, c)

\* a call of split_format has ended
SplitCalled == op = "split_format"

\* the halves of the spec and of the default of the call, under the registry
\* of the call
SpecM == remove_custom_flags(_FORMATTERS, args.spec)

SpecU == extract_custom_flags(_FORMATTERS, args.spec)

DefaultM == remove_custom_flags(_FORMATTERS, args.default)

DefaultU == extract_custom_flags(_FORMATTERS, args.default)

\* C12: for every spec string the magnitude half remove_custom_flags(spec)
\* and the unit half extract_custom_flags(spec) together have the characters
\* of spec, each as many times, and split_format returns these two halves
\* (where it substitutes no default: a non-empty spec and
\* separate_format_defaults not True).
C12_Original ==
    SplitCalled =>
        /\ SameMultiset(SpecM \o SpecU, args.spec)
        /\ (args.spec # "" /\ args.separate_format_defaults # "True")
               => ret = Return(<<SpecM, SpecU>>)

\* C12 under the names registered at import: the two halves have the
\* characters of spec
C12_BuiltinNames ==
    (SplitCalled /\ _FORMATTERS = BuiltinFormatters) =>
        /\ SameMultiset(SpecM \o SpecU, args.spec)
        /\ (args.spec # "" /\ args.separate_format_defaults # "True")
               => ret = Return(<<SpecM, SpecU>>)

\* with "ab" registered, "aLxb" was split into "" and "Lx": "a" and "b" are in
\* neither half
C12_Witness ==
    /\ SplitCalled
    /\ Registered(_FORMATTERS, "ab")
    /\ args.spec = "aLxb"
    /\ args.separate_format_defaults = "False"
    /\ ret = Return(<<"", "Lx">>)

\* C13: with an empty spec split_format returns the two halves of the default,
\* whatever separate_format_defaults is (True, False or None); with a
\* non-empty spec an empty magnitude half or unit half is replaced by the
\* default's half of that kind when separate_format_defaults is True, and
\* every half is returned as it is, empty or not, when it is False or None.
C13_DefaultFallback ==
    SplitCalled =>
        LET sfd == args.separate_format_defaults
        IN  /\ ret.kind = "return"
            /\ args.spec = "" => ret.value = <<DefaultM, DefaultU>>
            /\ (args.spec # "" /\ sfd = "True") =>
                   /\ ret.value[1] = (IF SpecM = "" THEN DefaultM ELSE SpecM)
                   /\ ret.value[2] = (IF SpecU = "" THEN DefaultU ELSE SpecU)
            /\ (args.spec # "" /\ sfd \in {"False", None}) =>
                   ret.value = <<SpecM, SpecU>>

\* a spec without a unit flag was split under None: the unit half stayed
\* empty although the default has one, and the warning was issued
C13_Witness ==
    /\ SplitCalled
    /\ args = [spec |-> "2", default |-> ".2f~P", separate_format_defaults |-> None]
    /\ ret = Return(<<"2", "">>)
    /\ locals.warnings = <<NoUnitFormatterWarning>>

\* s has none of the registered names and no "~" in it, and
\* remove_custom_flags leaves it as it is
FlagFree(F, s) ==
    /\ \A k \in 1..Len(KnownFlags(F)) : ~Contains(s, KnownFlags(F)[k])
    /\ extract_custom_flags(F, s) = ""
    /\ remove_custom_flags(F, s) = s

\* C18: for every spec string and every registry that registrations lead to
\* (names of several characters among them), remove_custom_flags(spec) has no
\* registered name and no "~" as a substring: extract_custom_flags of it is
\* "" and remove_custom_flags of it is itself.
C18_Original ==
    SplitCalled =>
        /\ FlagFree(_FORMATTERS, SpecM)
        /\ FlagFree(_FORMATTERS, DefaultM)

\* C18 under the names registered at import
C18_BuiltinNames ==
    (SplitCalled /\ _FORMATTERS = BuiltinFormatters) =>
        /\ FlagFree(_FORMATTERS, SpecM)
        /\ FlagFree(_FORMATTERS, DefaultM)

\* with "ab" registered, the magnitude half of "aabb" is "ab"
C18_Witness ==
    /\ SplitCalled
    /\ Registered(_FORMATTERS, "ab")
    /\ args.spec = "aabb"
    /\ args.separate_format_defaults = "False"
    /\ ret = Return(<<"ab", "ab">>)

----------------------------------------------------------------------------
(* FormattingUnit and FormattingQuantity.  A unit is the list of the         *)
(* (name, exponent) pairs of its _units; a quantity is a record of a         *)
(* magnitude, the float n.0 written n, and such a list.  The specs given to  *)
(* the renders have no "#" (to_compact is not part of this file), and the    *)
(* magnitudes are printed without an exponent part.                          *)

\* registry._get_symbol(key)
_get_symbol(key) ==
    CASE key = "meter" -> "m"
      [] key = "second" -> "s"
      [] key = "gram" -> "g"
      [] key = "radian" -> "rad"
      [] OTHER -> key

\* UnitsContainer({_get_symbol(key): value for key, value in _units.items()})
Symbols(units) == [k \in 1..Len(units) |-> <<_get_symbol(units[k][1]), units[k][2]>>]

\* PlainUnit.dimensionless: the unit has no dimension
dimensionless(units) ==
    \A k \in 1..Len(units) :
        Cardinality(get_dimensionality(get_name(units[k][1]))) = 0

\* babel_parse(locale): the Locale, written as its name
babel_parse(locale) == locale

\* Locale.plural_form(magnitude), for the magnitudes 1.0, 2.0 ...
plural_form(locale, magnitude) == IF magnitude = 1 THEN "one" ELSE "other"

\* format(magnitude, mspec) of a float
FormatMagnitude(magnitude, mspec) ==
    CASE mspec = "" -> Return(IntStr(magnitude) \o ".0")
      [] mspec = ".1f" -> Return(IntStr(magnitude) \o ".0")
      [] mspec = ".2f" -> Return(IntStr(magnitude) \o ".00")
      [] OTHER ->
           IF Len(mspec) = 1
           THEN Raise("ValueError", "Unknown format code '" \o mspec
                                    \o "' for object of type 'float'")
           ELSE Raise("ValueError", "Invalid format specifier '" \o mspec
                                    \o "' for object of type 'float'")

\* kwspec with kwspec[key] = val
With(kwspec, key, val) ==
    [k \in DOMAIN kwspec \cup {key} |-> IF k = key THEN val ELSE kwspec[k]]

\* kwspec without key
Without(kwspec, key) == [k \in DOMAIN kwspec \ {key} |-> kwspec[k]]

\* UnitsContainer.format_babel(spec, registry=registry, **kwspec)
UnitsContainer_format_babel(F, units, spec, registry, kwspec) ==
    format_unit(F, DefaultDimOrder, units, spec, registry, kwspec).ret

MissingLocale == Raise("ValueError", "Provide a 'locale' value to localize translation.")

\* a format_babel that goes on without a locale
Unit_format_babel_unchecked(F, loc, default, units, spec, locale, kwspec) ==
    CHOOSE r \in
        {IF Contains(spec1, "~") /\ dimensionless(units) THEN Return("")
         ELSE UnitsContainer_format_babel(
                  F, IF Contains(spec1, "~") THEN Symbols(units) ELSE units,
                  Replace(spec1, "~", ""), ureg,
                  With(kwspec, "locale", babel_parse(IF locale = None THEN loc ELSE locale))) :
            spec1 \in {IF spec # "" THEN spec ELSE extract_custom_flags(F, default)}} : TRUE

\* FormattingUnit.format_babel from its test of "~" on, spec1 being the spec
\* in effect
UnitBabel(F, loc, units, spec1, locale, kwspec) ==
    LET tilde == Contains(spec1, "~")
        locale1 == IF locale = None THEN loc ELSE locale
    IN  IF tilde /\ dimensionless(units) THEN Return("")
        ELSE IF locale1 = None THEN MissingLocale
        ELSE UnitsContainer_format_babel(
                 F, IF tilde THEN Symbols(units) ELSE units,
                 IF tilde THEN Replace(spec1, "~", "") ELSE spec1, ureg,
                 With(kwspec, "locale", babel_parse(locale1)))

\* FormattingUnit.format_babel(spec, locale, **kwspec) of a unit whose
\* registry has fmt_locale loc and default_format default
Unit_format_babel(F, loc, default, units, spec, locale, kwspec) ==
    CHOOSE r \in
        {UnitBabel(F, loc, units, spec1, locale, kwspec) :
            spec1 \in {IF spec # "" THEN spec ELSE extract_custom_flags(F, default)}} : TRUE

\* "{} {}".format(mstr, ustr).replace("\n", ""), or the error that one of the
\* two raised, the magnitude's first
BabelJoin(mstr, ustr) ==
    IF mstr.kind = "raise" THEN mstr
    ELSE IF ustr.kind = "raise" THEN ustr
    ELSE Return(Replace(mstr.value \o " " \o ustr.value, "\n", ""))

\* FormattingQuantity.format_babel(spec, **kwspec)
Quantity_format_babel(F, loc, default, q, spec, kwspec) ==
    LET spec1 == IF spec # "" THEN spec ELSE default
        kw1 == IF "length" \in DOMAIN kwspec
               THEN With(Without(kwspec, "length"), "babel_length", kwspec.length)
               ELSE kwspec
        loc1 == IF "locale" \in DOMAIN kw1 THEN kw1.locale ELSE loc
    IN  IF loc1 = None THEN MissingLocale
        ELSE CHOOSE r \in
                 {BabelJoin(mstr, ustr) :
                     mstr \in {FormatMagnitude(q.magnitude, remove_custom_flags(F, spec1))},
                     ustr \in {Unit_format_babel(
                                   F, loc, default, q.units, spec1, babel_parse(loc1),
                                   With(Without(kw1, "locale"), "babel_plural_form",
                                        plural_form(loc1, q.magnitude)))}} : TRUE

\* FormattingUnit.__format__ from its test of "~" on
UnitFormat(F, units, uspec) ==
    LET tilde == Contains(uspec, "~")
    IN  IF tilde /\ Len(units) = 0 THEN Return("")
        ELSE format_unit(F, DefaultDimOrder, IF tilde THEN Symbols(units) ELSE units,
                         IF tilde THEN Replace(uspec, "~", "") ELSE uspec, ureg,
                         NoOptions).ret

\* FormattingUnit.__format__(spec)
Unit__format__(F, default, sfd, units, spec) ==
    CHOOSE r \in {UnitFormat(F, units, sf.uspec) :
                     sf \in {split_format(F, spec, default, sfd)}} : TRUE

\* allf.format(mstr, ustr).strip() for a scalar magnitude: lines 200-221 give
\* allf, lines 288-290 cut the "1" of a "1 /..." unit string
PlainJoin(uspec, mstr, ustr) ==
    IF Contains(uspec, "Lx")
    THEN Return(Strip("\\SI[]{" \o mstr \o "}{" \o ustr \o "}"))
    ELSE Return(Strip(mstr \o (IF Contains(uspec, "L") THEN "\\ " ELSE " ")
                      \o (IF StartsWithAt(ustr, "1 /", 1)
                          THEN SubSeq(ustr, 3, Len(ustr)) ELSE ustr)))

\* FormattingQuantity.__format__ once ustr is computed: the magnitude string
\* and the template
PlainMagnitude(q, mspec, uspec, ustr) ==
    IF ustr.kind = "raise" THEN ustr
    ELSE CHOOSE r \in
             {IF m.kind = "raise" THEN m
              ELSE PlainJoin(uspec, Replace(m.value, "\n", ""), ustr.value) :
                 m \in {FormatMagnitude(q.magnitude, mspec)}} : TRUE

\* FormattingQuantity.__format__ once split_format has returned
PlainUnits(F, default, sfd, q, mspec, uspec) ==
    CHOOSE r \in
        {PlainMagnitude(q, mspec, uspec, ustr) :
            ustr \in {IF Contains(uspec, "Lx")
                      THEN Return(siunitx_format_unit(q.units, ureg))
                      ELSE Unit__format__(F, default, sfd, q.units, mspec \o uspec)}} : TRUE

\* FormattingQuantity.__format__(spec) from its split_format call on: the
\* render of a scalar magnitude when the registry has no fmt_locale
PlainFormat(F, default, sfd, q, spec) ==
    CHOOSE r \in {PlainUnits(F, default, sfd, q, sf.mspec, sf.uspec) :
                     sf \in {split_format(F, spec, default, sfd)}} : TRUE

\* a __str__ that never looks at fmt_locale
Quantity__str___plain(F, loc, default, sfd, q) ==
    [ret |-> PlainFormat(F, default, sfd, q, ""), localized |-> FALSE]

\* FormattingQuantity.__format__(spec): the outcome, and whether format_babel
\* produced it
Quantity__format__(F, loc, default, sfd, q, spec) ==
    IF loc # None
    THEN [ret |-> Quantity_format_babel(F, loc, default, q, spec, NoOptions),
          localized |-> TRUE]
    ELSE [ret |-> PlainFormat(F, default, sfd, q, spec), localized |-> FALSE]

\* FormattingQuantity.__str__()
Quantity__str__(F, loc, default, sfd, q) ==
    IF loc # None
    THEN [ret |-> Quantity_format_babel(F, loc, default, q, "", NoOptions),
          localized |-> TRUE]
    ELSE Quantity__format__(F, loc, default, sfd, q, "")

----------------------------------------------------------------------------
(* The renders of a registry whose fmt_locale and default_format change *)

\* how many set_fmt_locale calls a behaviour makes
MaxLocaleCalls == 2

Locales == {"fr_FR"}

DefaultFormats == {"", "~"}

\* 24.0 meter, 1.0 meter / second ** 2, 24.0 dimensionless
Quantities ==
    {[magnitude |-> 24, units |-> <<<<"meter", Exp(1)>>>>],
     [magnitude |-> 1, units |-> <<<<"meter", Exp(1)>>, <<"second", Exp(-2)>>>>],
     [magnitude |-> 24, units |-> << >>]}

\* the units of the quantities
Units == {q.units : q \in Quantities}

RenderSpecs == {"", "~", ".2fP"}

\* the keyword arguments given to FormattingQuantity.format_babel
BabelKeywords == {NoOptions, [locale |-> "fr_FR", length |-> "short"]}

InitLocale ==
    /\ _FORMATTERS = BuiltinFormatters
    /\ fmt_locale = None
    /\ default_format = ""
    /\ separate_format_defaults \in {"True", "False", None}
    /\ locale_calls = << >>
    /\ op = "start"
    /\ args = << >>
    /\ ret = Pending
    /\ locals = << >>

\* registry.set_fmt_locale(loc)
Call_set_fmt_locale ==
    \E loc \in Locales \cup {None} :
        /\ Len(locale_calls) < MaxLocaleCalls
        /\ fmt_locale' = loc
        /\ locale_calls' = Append(locale_calls, loc)
        /\ op' = "set_fmt_locale"
        /\ args' = [loc |-> loc]
        /\ ret' = Return(None)
        /\ locals' = << >>
        /\ UNCHANGED <<_FORMATTERS, default_format, separate_format_defaults>>

\* registry.default_format = fmt
Set_default_format ==
    \E fmt \in DefaultFormats :
        /\ default_format' = fmt
        /\ op' = "default_format"
        /\ args' = [fmt |-> fmt]
        /\ ret' = Return(None)
        /\ locals' = << >>
        /\ UNCHANGED <<_FORMATTERS, fmt_locale, separate_format_defaults, locale_calls>>

\* str(q)
Call_Quantity__str__ ==
    \E q \in Quantities :
        \E run \in {Quantity__str__(_FORMATTERS, fmt_locale, default_format,
                                    separate_format_defaults, q)} :
            /\ op' = "Quantity.__str__"
            /\ args' = [q |-> q, spec |-> ""]
            /\ ret' = run.ret
            /\ locals' = [localized |-> run.localized]
            /\ UNCHANGED <<_FORMATTERS, fmt_locale, default_format,
                           separate_format_defaults, locale_calls>>

\* format(q, spec)
Call_Quantity__format__ ==
    \E q \in Quantities, spec \in RenderSpecs :
        \E run \in {Quantity__format__(_FORMATTERS, fmt_locale, default_format,
                                       separate_format_defaults, q, spec)} :
            /\ op' = "Quantity.__format__"
            /\ args' = [q |-> q, spec |-> spec]
            /\ ret' = run.ret
            /\ locals' = [localized |-> run.localized]
            /\ UNCHANGED <<_FORMATTERS, fmt_locale, default_format,
                           separate_format_defaults, locale_calls>>

\* q.format_babel(spec, **kwspec)
Call_Quantity_format_babel ==
    \E q \in Quantities, spec \in RenderSpecs, kwspec \in BabelKeywords :
        /\ op' = "Quantity.format_babel"
        /\ args' = [q |-> q, units |-> q.units, spec |-> spec, kwspec |-> kwspec,
                    locale |-> IF "locale" \in DOMAIN kwspec THEN kwspec.locale ELSE None]
        /\ ret' = Quantity_format_babel(_FORMATTERS, fmt_locale, default_format, q, spec,
                                        kwspec)
        /\ locals' = << >>
        /\ UNCHANGED <<_FORMATTERS, fmt_locale, default_format,
                       separate_format_defaults, locale_calls>>

\* u.format_babel(spec, locale)
Call_Unit_format_babel ==
    \E units \in Units, spec \in RenderSpecs, locale \in Locales \cup {None} :
        /\ op' = "Unit.format_babel"
        /\ args' = [units |-> units, spec |-> spec, locale |-> locale]
        /\ ret' = Unit_format_babel(_FORMATTERS, fmt_locale, default_format, units, spec,
                                    locale, NoOptions)
        /\ locals' = << >>
        /\ UNCHANGED <<_FORMATTERS, fmt_locale, default_format,
                       separate_format_defaults, locale_calls>>

NextLocale ==
    \/ Call_set_fmt_locale
    \/ Set_default_format
    \/ Call_Quantity__str__
    \/ Call_Quantity__format__
    \/ Call_Quantity_format_babel
    \/ Call_Unit_format_babel

SpecLocale == InitLocale /\ [][NextLocale]_vars

\* a format_babel call without a locale argument has ended while the
\* registry had no fmt_locale
BabelWithoutLocale ==
    /\ op \in {"Quantity.format_babel", "Unit.format_babel"}
    /\ args.locale = None
    /\ fmt_locale = None

\* the spec a unit's format_babel goes by
EffectiveUnitSpec ==
    IF args.spec # "" THEN args.spec
    ELSE extract_custom_flags(_FORMATTERS, default_format)

\* the one case in which FormattingUnit.format_babel returns before it
\* looks at the locale
SymbolOfDimensionless ==
    /\ op = "Unit.format_babel"
    /\ Contains(EffectiveUnitSpec, "~")
    /\ dimensionless(args.units)

\* C3 as stated: without a locale argument and with fmt_locale None, both
\* format_babel methods raise the missing-locale ValueError for every unit
\* and every spec and default_format, and never return a string.
C3_Original == BabelWithoutLocale => ret = MissingLocale

\* C3: without a locale argument and with fmt_locale None,
\* FormattingQuantity.format_babel always raises the missing-locale
\* ValueError, and FormattingUnit.format_babel raises it unless the unit is
\* dimensionless and the spec in effect (the spec, or the flags of
\* default_format) contains "~": then it returns "".
C3_MissingLocale ==
    BabelWithoutLocale =>
        IF SymbolOfDimensionless THEN ret = Return("") ELSE ret = MissingLocale

\* with default_format "~" and the locale reset to None, format_babel() of
\* the unit meter has raised
C3_Witness ==
    /\ op = "Unit.format_babel"
    /\ args = [units |-> <<<<"meter", Exp(1)>>>>, spec |-> "", locale |-> None]
    /\ default_format = "~"
    /\ locale_calls = <<"fr_FR", None>>
    /\ fmt_locale = None
    /\ ret = MissingLocale

\* the render of test_str: 24.0 meter under default_format ""
TestStrQuantity == [magnitude |-> 24, units |-> <<<<"meter", Exp(1)>>>>]

====
